---------------------------- MODULE Spec2Model ----------------------------
(***************************************************************************)
(* State reducers of storyteller_lib/models.py.  The graph engine keeps    *)
(* one current value per annotated StoryState key and, for every node      *)
(* update, replaces it by reducer(current, delta).  Each reducer is        *)
(* modelled by an operator that computes what the Python code computes,    *)
(* and by an action that applies it to the current value with a delta      *)
(* drawn from a bounded set.  The last call (its arguments) is kept in a   *)
(* history variable so that properties of one call can be stated.          *)
(***************************************************************************)
EXTENDS Naturals, Sequences, FiniteSets

VARIABLES
    revelations,    \* StoryState.revelations: a dict, key -> list
    rev_call,       \* the last merge_revelations call: [called, existing, new]
    plot_threads,   \* StoryState.plot_threads: a dict, thread name -> object
    pt_heap,        \* the thread dicts in memory: object -> its present value
    pt_call,        \* the last merge_plot_threads call
    characters,     \* StoryState.characters: a dict, character id -> profile
    ch_call,        \* the last merge_characters call
    chapters,       \* StoryState.chapters: a dict, chapter id -> chapter
    chap_call,      \* the last merge_chapters call
    world_elements, \* StoryState.world_elements: a dict, category -> dict
    we_heap,        \* the lists of world elements in memory: object -> items
    we_call,        \* the last merge_world_elements call
    creative_elements,  \* StoryState.creative_elements: a dict
    ce_call,        \* the last merge_creative_elements call
    messages,       \* StoryState.messages: the list of messages
    msg_call,       \* the last update of messages: [called, node, existing, new]
    list_value,     \* a list that a caller keeps with merge_lists, or None
    ml_call,        \* the last merge_lists call: [called, existing, new]
    memory,         \* the memory store: the value kept for key_concepts_tracker
    marked,         \* the concept names marked introduced in that tracker
    exp_call,       \* the last call of a function of exposition.py
    progress_callback,  \* _progress_callback: the callback registered, or None
    start_time,     \* _start_time: None, or the time of the first node call
    node_counts,    \* _node_counts: a dict, node name -> number of calls
    pr_call         \* the last call of the progress tracking API

revVars == <<revelations, rev_call>>
ptVars == <<plot_threads, pt_heap, pt_call>>
chVars == <<characters, ch_call>>
chapVars == <<chapters, chap_call>>
weVars == <<world_elements, we_heap, we_call>>
ceVars == <<creative_elements, ce_call>>
msgVars == <<messages, msg_call>>
mlVars == <<list_value, ml_call>>
expVars == <<memory, marked, exp_call>>
prVars == <<progress_callback, start_time, node_counts, pr_call>>
vars == <<revelations, rev_call, plot_threads, pt_heap, pt_call,
          characters, ch_call, chapters, chap_call,
          world_elements, we_heap, we_call, creative_elements, ce_call,
          messages, msg_call, list_value, ml_call,
          memory, marked, exp_call,
          progress_callback, start_time, node_counts, pr_call>>

\* the variables of the other keys
exceptRevelations ==
    <<ptVars, chVars, chapVars, weVars, ceVars, msgVars, mlVars, expVars, prVars>>
exceptPlotThreads ==
    <<revVars, chVars, chapVars, weVars, ceVars, msgVars, mlVars, expVars, prVars>>
exceptCharacters ==
    <<revVars, ptVars, chapVars, weVars, ceVars, msgVars, mlVars, expVars, prVars>>
exceptChapters ==
    <<revVars, ptVars, chVars, weVars, ceVars, msgVars, mlVars, expVars, prVars>>
exceptWorldElements ==
    <<revVars, ptVars, chVars, chapVars, ceVars, msgVars, mlVars, expVars, prVars>>
exceptCreativeElements ==
    <<revVars, ptVars, chVars, chapVars, weVars, msgVars, mlVars, expVars, prVars>>

(***************************************************************************)
(* Bounds.                                                                 *)
(***************************************************************************)
MaxIssues == 2      \* longest continuity_issues list a delta carries
MaxReader == 2      \* longest reader / characters list that is built
MaxHistory == 2     \* longest development_history list a delta carries
MaxPairs == 2       \* longest relationships list a delta carries
MaxFacts == 2       \* longest fact list that is built
MaxNotes == 2       \* longest reflection_notes list that is built
MaxMessages == 2    \* longest list of messages that is built by appending
MaxList == 3        \* longest list that is built with merge_lists
MaxObjects == 3     \* most lists of world elements made in a run
MaxConcepts == 2    \* most concepts in a key concepts analysis
MaxCalls == 2       \* most calls of one node between two resets

(***************************************************************************)
(* Python dicts are functions whose DOMAIN is the set of keys present.     *)
(***************************************************************************)
EmptyDict == [k \in {} |-> <<>>]

Has(d, k) == k \in DOMAIN d

\* dict.get(k, default)
Get(d, k, default) == IF k \in DOMAIN d THEN d[k] ELSE default

\* d[k] = v
Put(d, k, v) == [x \in DOMAIN d \cup {k} |-> IF x = k THEN v ELSE d[x]]

\* None, among string values
None == "None"

\* the truth value of a string or None
Truthy(v) == v # None /\ v # ""

\* Values of several Python types, where the code tells the types apart: a
\* record [kind, list, map, str] whose field of the kind's name holds the
\* payload.
PyNone == [kind |-> "none", list |-> <<>>, map |-> EmptyDict, str |-> ""]
PyList(l) == [kind |-> "list", list |-> l, map |-> EmptyDict, str |-> ""]
PyDict(m) == [kind |-> "dict", list |-> <<>>, map |-> m, str |-> ""]
PyStr(x) == [kind |-> "str", list |-> <<>>, map |-> EmptyDict, str |-> x]
\* a number, kept as its decimal numeral
PyInt(x) == [kind |-> "int", list |-> <<>>, map |-> EmptyDict, str |-> x]
\* None in the place of a dict
NoneDict == [k \in {"None"} |-> PyNone]

(***************************************************************************)
(* merge_revelations                                                       *)
(*                                                                         *)
(* A continuity issue is a record [after_chapter, resolution_status,       *)
(* description].  after_chapter = "" stands for every falsy outcome of     *)
(* issue.get("after_chapter"): key missing, None, or the empty string.     *)
(* best_issues_by_chapter is an insertion-ordered dict; it is modelled by  *)
(* the sequence of its values, which holds one issue per chapter key.      *)
(***************************************************************************)
ChapterKeys == {"1", "2"}
NoChapter == ""
Statuses == {"open", "completed"}
Descriptions == {"d1", "d2"}

Issue(c, s, d) == [after_chapter |-> c, resolution_status |-> s, description |-> d]

\* `chapter in best_issues_by_chapter`
InBest(best, chapter) ==
    \E i \in 1..Len(best) : best[i].after_chapter = chapter

\* best_issues_by_chapter[chapter]
BestAt(best, chapter) ==
    best[CHOOSE i \in 1..Len(best) : best[i].after_chapter = chapter]

\* best_issues_by_chapter[chapter] = issue, for a key already present: the
\* key keeps its place in the dict's order
SetBest(best, chapter, issue) ==
    [i \in 1..Len(best) |->
        IF best[i].after_chapter = chapter THEN issue ELSE best[i]]

\* the elif of the loop over the old issues
OldReplaces(issue, current) ==
    /\ issue.resolution_status = "completed"
    /\ current.resolution_status # "completed"

\* one iteration of `for issue in old_issues`
OldIssueStep(best, issue) ==
    IF issue.after_chapter = NoChapter THEN best
    ELSE IF ~InBest(best, issue.after_chapter) THEN Append(best, issue)
    ELSE IF OldReplaces(issue, BestAt(best, issue.after_chapter))
         THEN SetBest(best, issue.after_chapter, issue)
         ELSE best

\* Variants of NewReplaces with a plausible slip: the first issue seen for a
\* chapter is kept; the newest issue always wins; the old issues' rule is
\* reused for the new ones.
NewReplaces_FirstWins(issue, current) == FALSE

NewReplaces_LastWins(issue, current) == TRUE

NewReplaces_AsOld(issue, current) ==
    /\ issue.resolution_status = "completed"
    /\ current.resolution_status # "completed"

\* the elif of the loop over the new issues
NewReplaces(issue, current) ==
    \/ issue.resolution_status = "completed"
    \/ current.resolution_status # "completed"

\* Variant of NewIssueStep with a plausible slip: the new issues are appended
\* like the entries of every other list.
NewIssueStep_Append(best, issue) ==
    IF issue.after_chapter = NoChapter THEN best ELSE Append(best, issue)

\* Variant of NewIssueStep with a plausible slip: the test `if not chapter`
\* is missing, so an issue without after_chapter is kept under that key.
NewIssueStep_NoSkip(best, issue) ==
    IF ~InBest(best, issue.after_chapter) THEN Append(best, issue)
    ELSE IF NewReplaces(issue, BestAt(best, issue.after_chapter))
         THEN SetBest(best, issue.after_chapter, issue)
         ELSE best

\* one iteration of `for issue in new_issues`
NewIssueStep(best, issue) ==
    IF issue.after_chapter = NoChapter THEN best
    ELSE IF ~InBest(best, issue.after_chapter) THEN Append(best, issue)
    ELSE IF NewReplaces(issue, BestAt(best, issue.after_chapter))
         THEN SetBest(best, issue.after_chapter, issue)
         ELSE best

RECURSIVE ProcessOld(_, _)
ProcessOld(best, issues) ==
    IF issues = <<>> THEN best
    ELSE ProcessOld(OldIssueStep(best, Head(issues)), Tail(issues))

RECURSIVE ProcessNew(_, _)
ProcessNew(best, issues) ==
    IF issues = <<>> THEN best
    ELSE ProcessNew(NewIssueStep(best, Head(issues)), Tail(issues))

\* Variant of StandardMerge with a plausible slip: a list of the delta
\* replaces the existing list.
StandardMerge_Replace(existing, new) ==
    [k \in DOMAIN existing \cup DOMAIN new |->
        IF k \in DOMAIN new THEN new[k] ELSE existing[k]]

\* the branch taken when the delta is empty or has no continuity_issues key:
\* every value of the model is a list, so both isinstance tests hold
StandardMerge(existing, new) ==
    [k \in DOMAIN existing \cup DOMAIN new |->
        IF k \in DOMAIN new
        THEN IF k \in DOMAIN existing THEN existing[k] \o new[k] ELSE new[k]
        ELSE existing[k]]

\* the branch taken when the delta has a continuity_issues key
ContinuityMerge(existing, new) ==
    LET old_issues == Get(existing, "continuity_issues", <<>>)
        new_issues == Get(new, "continuity_issues", <<>>)
        final_issues == ProcessNew(ProcessOld(<<>>, old_issues), new_issues)
    IN  [k \in DOMAIN existing \cup DOMAIN new |->
            IF k = "continuity_issues" THEN final_issues
            ELSE IF k \in DOMAIN new THEN new[k]
            ELSE existing[k]]

\* None has no copy() and no items(); `not new` holds for None, so a None
\* delta reaches new.items()
merge_revelations_raises(existing, new) ==
    existing = NoneDict \/ new = NoneDict

merge_revelations(existing, new) ==
    IF DOMAIN new = {} \/ ~Has(new, "continuity_issues")
    THEN StandardMerge(existing, new)
    ELSE ContinuityMerge(existing, new)

(***************************************************************************)
(* The deltas a node may return for the revelations key.                   *)
(***************************************************************************)
Issues ==
    {Issue(c, s, d) : c \in ChapterKeys, s \in Statuses, d \in Descriptions}
        \cup {Issue(NoChapter, "open", "d1")}

SeqUpTo(S, n) == UNION {[1..m -> S] : m \in 0..n}

\* the empty list and the lists of one item of S
Short(S) == {<<>>} \cup {<<x>> : x \in S}

\* the lists of two items of S
Twice(S) == {<<x, y>> : x \in S, y \in S}

ReaderItems == {"r1"}

\* a key of a delta: absent, or present with a list
Absent == [present |-> FALSE, val |-> <<>>]
Present(l) == [present |-> TRUE, val |-> l]
Optional(lists) == {Absent} \cup {Present(l) : l \in lists}

\* the dict {"reader": r, "continuity_issues": i} without the keys that are
\* absent.  merge_revelations names no key but continuity_issues: "reader"
\* stands for every other key ("reader", "characters"), which the two loops
\* over new.items() treat alike
Delta(r, i) ==
    LET opt == [reader |-> r, continuity_issues |-> i]
    IN  [k \in {x \in DOMAIN opt : opt[x].present} |-> opt[k].val]

RevelationDeltas ==
    {Delta(r, i) :
        r \in Optional(Short(ReaderItems)),
        i \in Optional(SeqUpTo(Issues, MaxIssues))}

\* the reader list stays within the bound when the delta's is appended
WithinReaderBound(existing, new) ==
    Len(Get(existing, "reader", <<>>)) + Len(Get(new, "reader", <<>>)) <= MaxReader

(***************************************************************************)
(* merge_plot_threads                                                      *)
(*                                                                         *)
(* result = existing.copy() copies the outer dict only: result and         *)
(* existing map the thread names to the same thread dict objects, and      *)
(* existing_thread = result[thread_name] is such an object, which the      *)
(* function then writes to.  A dict of threads is therefore a function     *)
(* thread name -> object, and pt_heap gives each object's present value:   *)
(* a function whose DOMAIN is the set of fields present.  A delta is the   *)
(* sequence of its items (name, thread_data) in the dict's order.          *)
(***************************************************************************)
Entry(c, s, d) == [chapter |-> c, scene |-> s, development |-> d]

\* f"{entry.get('chapter')}_{entry.get('scene')}_{entry.get('development')}"
EntryKey(entry) ==
    entry.chapter \o "_" \o entry.scene \o "_" \o entry.development

\* the set existing_entries
ExistingEntries(existing_history) ==
    {EntryKey(existing_history[i]) : i \in 1..Len(existing_history)}

\* Variant of AppendNewEntries with a plausible slip: every entry of the
\* delta is appended, also one that the history already holds.
AppendNewEntries_All(existing_history, new_history) ==
    existing_history \o new_history

\* the loop `for entry in new_history`: existing_entries is computed once,
\* before the loop
AppendNewEntries(existing_history, new_history) ==
    LET existing_entries == ExistingEntries(existing_history)
        IsNew(entry) == EntryKey(entry) \notin existing_entries
    IN  existing_history \o SelectSeq(new_history, IsNew)

\* thread_data["status"] raises KeyError when the key is missing; the
\* subscript is evaluated only when the two .get("status") differ
StatusRaises(existing_thread, thread_data) ==
    /\ Get(thread_data, "status", None) # Get(existing_thread, "status", None)
    /\ ~Has(thread_data, "status")

UpdateStatus(existing_thread, thread_data) ==
    IF Get(thread_data, "status", None) # Get(existing_thread, "status", None)
    THEN Put(existing_thread, "status", thread_data["status"])
    ELSE existing_thread

UpdateLast(existing_thread, thread_data) ==
    IF /\ Truthy(Get(thread_data, "last_chapter", None))
       /\ Truthy(Get(thread_data, "last_scene", None))
    THEN Put(Put(existing_thread, "last_chapter", thread_data["last_chapter"]),
             "last_scene", thread_data["last_scene"])
    ELSE existing_thread

UpdateHistory(existing_thread, thread_data) ==
    IF /\ Has(thread_data, "development_history")
       /\ thread_data["development_history"] # <<>>
    THEN Put(existing_thread, "development_history",
             AppendNewEntries(Get(existing_thread, "development_history", <<>>),
                              thread_data["development_history"]))
    ELSE existing_thread

\* the value of the object existing_thread after the body of
\* `if thread_name in result`, when nothing is raised
UpdateThread(existing_thread, thread_data) ==
    UpdateHistory(UpdateLast(UpdateStatus(existing_thread, thread_data),
                             thread_data),
                  thread_data)

\* One iteration of `for thread_name, thread_data in new.items()`.  m is the
\* memory and the local result: [result, heap, raised].  An existing thread's
\* object is written in place; a new thread's thread_data, an object of the
\* delta, is put into result as it is.
ThreadStep(m, item) ==
    IF m.raised THEN m
    ELSE IF Has(m.result, item.name)
    THEN LET obj == m.result[item.name]
         IN  IF StatusRaises(m.heap[obj], item.data)
             THEN [m EXCEPT !.raised = TRUE]
             ELSE [m EXCEPT !.heap[obj] = UpdateThread(m.heap[obj], item.data)]
    ELSE [m EXCEPT !.heap = Append(m.heap, item.data),
                   !.result = Put(m.result, item.name, Len(m.heap) + 1)]

RECURSIVE ThreadLoop(_, _)
ThreadLoop(m, items) ==
    IF items = <<>> THEN m
    ELSE ThreadLoop(ThreadStep(m, Head(items)), Tail(items))

\* None in the place of the delta, which has no items()
NoneThreads == <<[name |-> "None", data |-> EmptyDict]>>

\* merge_plot_threads(existing, new) run in memory heap: the dict it returns,
\* the memory it leaves, and whether it raised instead of returning
merge_plot_threads(existing, new, heap) ==
    IF new = NoneThreads
    THEN [result |-> existing, heap |-> heap, raised |-> TRUE]
    ELSE ThreadLoop([result |-> existing, heap |-> heap, raised |-> FALSE], new)

\* the value of a dict of threads in a memory: thread name -> thread value
Deref(threads, heap) == [n \in DOMAIN threads |-> heap[threads[n]]]

(***************************************************************************)
(* The deltas a node may return for the plot_threads key.                  *)
(***************************************************************************)
ThreadNames == {"t1"}
ThreadStatuses == {"open", "resolved"}
LastValues == {"1", "2"}
Entries == {Entry("1", "1", "a"), Entry("1", "2", "b")}

ThreadData(s, lc, ls, h) ==
    LET opt == [status |-> s, last_chapter |-> lc, last_scene |-> ls,
                development_history |-> h]
    IN  [k \in {x \in DOMAIN opt : opt[x].present} |-> opt[k].val]

\* last_chapter and last_scene of a delta: none, both, or one of the two
LastPairs ==
    {<<Absent, Absent>>}
        \cup {<<Present(v), Present(v)>> : v \in LastValues}
        \cup {<<Present(v), Absent>> : v \in {"2"}}
        \cup {<<Absent, Present(v)>> : v \in {"2"}}

ThreadDatas ==
    {ThreadData(s, last[1], last[2], h) :
        s \in Optional(ThreadStatuses),
        last \in LastPairs,
        h \in Optional(SeqUpTo(Entries, MaxHistory))}

Item(n, data) == [name |-> n, data |-> data]

PlotThreadDeltas ==
    {<<>>} \cup {<<Item(n, data)>> : n \in ThreadNames, data \in ThreadDatas}

\* entries whose chapter, scene or development holds the separator of
\* EntryKey: the first three differ as triples
SeparatorEntries ==
    {Entry("1_2", "3", "a"), Entry("1", "2_3", "a"), Entry("1", "2", "3_a"),
     Entry("1", "2", "a")}

\* the deltas of a node that reports such entries for the open thread t1
SeparatorThreadDeltas ==
    {<<Item("t1", ThreadData(Present("open"), Absent, Absent, Present(h)))>> :
        h \in SeqUpTo(SeparatorEntries, MaxHistory)}

(***************************************************************************)
(* merge_characters                                                        *)
(*                                                                         *)
(* The fields of a character profile hold values of several Python types,  *)
(* which the code tells apart with `is None` and isinstance.  A value is a *)
(* record [kind, list, map, str]: kind is "none", "list", "dict" or "str"  *)
(* and the field of that name holds the payload.  An item of a             *)
(* relationships list is the dict {character, relationship}, a function    *)
(* whose DOMAIN is the set of its keys.  A dict that is None is NoneDict.  *)
(***************************************************************************)
\* `if v`
PyTruthy(v) ==
    CASE v.kind = "none" -> FALSE
      [] v.kind = "list" -> v.list # <<>>
      [] v.kind = "dict" -> DOMAIN v.map # {}
      [] v.kind = "str" -> v.str # ""
      [] v.kind = "int" -> v.str # "0"

\* `field in d and d[field] is not None`
HasValue(d, field) == Has(d, field) /\ d[field].kind # "none"

\* isinstance(item, dict), for an item of a relationships list
ItemIsDict(item) == item.isdict

\* str(i) for the indices of a short list
Digits == <<"0", "1", "2", "3", "4", "5", "6">>
IndexStr(i) == Digits[i + 1]

\* item.get("character", f"char_{i}"), with enumerate's index i from 0
ItemCharacter(items, n) ==
    Get(items[n].d, "character", "char_" \o IndexStr(n - 1))

\* item.get("relationship", "")
ItemRelationship(items, n) == Get(items[n].d, "relationship", "")

\* Variant of PairsToDict with a plausible slip: the list is taken as not
\* convertible and the field becomes the empty dict.
PairsToDict_Empty(items) == EmptyDict

\* {item.get("character", f"char_{i}"): item.get("relationship", "")
\*  for i, item in enumerate(items)}: a later item overwrites an earlier one
\* with the same key
PairsToDict(items) ==
    [c \in {ItemCharacter(items, n) : n \in 1..Len(items)} |->
        LET last == CHOOSE n \in 1..Len(items) :
                        /\ ItemCharacter(items, n) = c
                        /\ \A k \in 1..Len(items) :
                               ItemCharacter(items, k) = c => k <= n
        IN  ItemRelationship(items, last)]

\* the conversion of both branches: a list whose items are all dicts becomes
\* a dict, every other value the empty dict
ListToDict(v) ==
    IF v.kind = "list" /\ \A n \in 1..Len(v.list) : ItemIsDict(v.list[n])
    THEN PyDict(PairsToDict(v.list))
    ELSE PyDict(EmptyDict)

\* {**a, **b}
MergeDicts(a, b) ==
    [k \in DOMAIN a \cup DOMAIN b |-> IF k \in DOMAIN b THEN b[k] ELSE a[k]]

\* `a + b` raises TypeError unless both are lists or both are strings (the
\* values of a fact field are lists, strings, dicts or None)
AddRaises(a, b) ==
    ~ \/ a.kind = "list" /\ b.kind = "list"
      \/ a.kind = "str" /\ b.kind = "str"

\* `a + b` of two lists or of two strings
PyAdd(a, b) ==
    IF a.kind = "list" THEN PyList(a.list \o b.list) ELSE PyStr(a.str \o b.str)

\* the iteration for list_field evaluates `result_char[f] + char_data[f]`
\* and that raises
ListFieldRaises(result_char, char_data, list_field) ==
    /\ HasValue(char_data, list_field) /\ PyTruthy(char_data[list_field])
    /\ HasValue(result_char, list_field)
    /\ AddRaises(result_char[list_field], char_data[list_field])

\* Variant of MergeListField with a plausible slip: the delta's list replaces
\* the character's instead of following it.
MergeListField_Replace(result_char, char_data, list_field) ==
    IF HasValue(char_data, list_field) /\ PyTruthy(char_data[list_field])
    THEN Put(result_char, list_field, char_data[list_field])
    ELSE result_char

\* one iteration of `for list_field in [...]`
MergeListField(result_char, char_data, list_field) ==
    IF HasValue(char_data, list_field) /\ PyTruthy(char_data[list_field])
    THEN IF HasValue(result_char, list_field)
         THEN Put(result_char, list_field,
                  PyAdd(result_char[list_field], char_data[list_field]))
         ELSE Put(result_char, list_field, char_data[list_field])
    ELSE result_char

ListFields == <<"evolution", "known_facts", "secret_facts", "revealed_facts">>

RECURSIVE MergeListFields(_, _, _)
MergeListFields(result_char, char_data, fields) ==
    IF fields = <<>> THEN result_char
    ELSE MergeListFields(MergeListField(result_char, char_data, Head(fields)),
                         char_data, Tail(fields))

\* the `if "relationships" in char_data ...` statement
MergeRelationships(result_char, char_data) ==
    IF ~HasValue(char_data, "relationships") THEN result_char
    ELSE LET new == char_data["relationships"]
         IN  IF HasValue(result_char, "relationships")
             THEN LET old == result_char["relationships"]
                  IN  IF old.kind = "dict" /\ new.kind = "dict"
                      THEN Put(result_char, "relationships",
                               PyDict(MergeDicts(old.map, new.map)))
                      ELSE IF new.kind = "dict"
                      THEN Put(result_char, "relationships", new)
                      ELSE IF old.kind = "dict"
                      THEN result_char
                      ELSE Put(result_char, "relationships", ListToDict(new))
             ELSE IF new.kind = "dict"
                  THEN Put(result_char, "relationships", new)
                  ELSE Put(result_char, "relationships", ListToDict(new))

\* one iteration of `for field in ["name", "role", "backstory"]`
MergeScalarField(result_char, char_data, field) ==
    IF Has(char_data, field) /\ PyTruthy(char_data[field])
    THEN Put(result_char, field, char_data[field])
    ELSE result_char

ScalarFields == <<"name", "role", "backstory">>

RECURSIVE MergeScalarFields(_, _, _)
MergeScalarFields(result_char, char_data, fields) ==
    IF fields = <<>> THEN result_char
    ELSE MergeScalarFields(MergeScalarField(result_char, char_data, Head(fields)),
                           char_data, Tail(fields))

\* the body of `if char_id in result`
UpdateCharacter(result_char, char_data) ==
    MergeScalarFields(
        MergeRelationships(
            MergeListFields(result_char, char_data, ListFields),
            char_data),
        char_data, ScalarFields)

\* the update of an existing character raises: an iteration of the list
\* fields does (each iteration reads and writes its own field only)
UpdateRaises(result_char, char_data) ==
    \E n \in 1..Len(ListFields) :
        ListFieldRaises(result_char, char_data, ListFields[n])

\* the call raises instead of returning: an update of an existing character
\* does, or result[char_id].copy() of a character that existing gives as None
merge_characters_raises(existing, new) ==
    /\ existing # NoneDict
    /\ new # NoneDict
    /\ \E id \in DOMAIN existing \cap DOMAIN new :
        /\ new[id] # NoneDict
        /\ existing[id] = NoneDict \/ UpdateRaises(existing[id], new[id])

\* the loop over new.items(): every iteration reads and writes result[char_id]
\* only, so the result is given key by key
merge_characters(existing, new) ==
    IF existing = NoneDict THEN (IF new # NoneDict THEN new ELSE EmptyDict)
    ELSE IF new = NoneDict THEN existing
    ELSE [id \in DOMAIN existing \cup {x \in DOMAIN new : new[x] # NoneDict} |->
            IF ~Has(new, id) \/ new[id] = NoneDict THEN existing[id]
            ELSE IF Has(existing, id) THEN UpdateCharacter(existing[id], new[id])
            ELSE new[id]]

(***************************************************************************)
(* The deltas a node may return for the characters key.                    *)
(***************************************************************************)
CharacterIds == {"alice"}
Facts == {"f1"}
Names == {"Alice"}

Pair(c, r) == [isdict |-> TRUE, d |-> [character |-> c, relationship |-> r]]

Pairs == {Pair("bob", "ally"), Pair("bob", "rival"), Pair("carol", "ally")}

RelationshipDicts ==
    {EmptyDict, [bob |-> "ally"], [bob |-> "rival"], [carol |-> "rival"]}

\* relationships of a delta: absent, None, a dict, or a list of pairs
RelationshipValues ==
    {Absent, Present(PyNone)}
        \cup {Present(PyDict(m)) : m \in RelationshipDicts}
        \cup {Present(PyList(l)) : l \in SeqUpTo(Pairs, MaxPairs)}

\* a fact list of a delta: absent, None, or a list
FactValues ==
    {Absent, Present(PyNone)} \cup {Present(PyList(l)) : l \in Short(Facts)}

NameValues == {Absent} \cup {Present(PyStr(n)) : n \in Names}

CharData(n, f, r) ==
    LET opt == [name |-> n, known_facts |-> f, relationships |-> r]
    IN  [k \in {x \in DOMAIN opt : opt[x].present} |-> opt[k].val]

CharDatas ==
    {NoneDict} \cup
    {CharData(n, f, r) : n \in NameValues, f \in FactValues, r \in RelationshipValues}

CharacterDeltas ==
    {NoneDict, EmptyDict}
        \cup {[id \in {c} |-> data] : c \in CharacterIds, data \in CharDatas}

\* a character given with one field only
OneField(field, v) == [k \in {field} |-> v]

\* an item of a relationships list that is not a dict (a string, say)
NonRecord == [isdict |-> FALSE, d |-> EmptyDict]

\* values of the wrong type for a fact list: a string and a dict
MalformedFacts == {PyStr("x"), PyDict([k \in {"f1"} |-> "v"])}

\* values of the wrong type for relationships: a string, a number, lists
\* with items that are not dicts
MalformedRelationships ==
    {PyStr("friend"), PyInt("7"), PyList(<<NonRecord>>),
     PyList(<<Pair("bob", "ally"), NonRecord>>)}

\* deltas with one field of the wrong type, and the well-formed deltas that
\* give the field a value before
MalformedCharDatas ==
    {EmptyDict,
     OneField("known_facts", PyList(<<"f1">>)),
     OneField("relationships", PyDict([bob |-> "ally"]))}
        \cup {OneField("known_facts", v) : v \in MalformedFacts}
        \cup {OneField("relationships", v) : v \in MalformedRelationships}

MalformedCharacterDeltas ==
    {[id \in {c} |-> data] : c \in CharacterIds, data \in MalformedCharDatas}

\* the length of a list or of a string
Size(v) == IF v.kind = "str" THEN Len(v.str) ELSE Len(v.list)

\* the fact lists stay within the bound when the delta's are appended
WithinFactBound(existing, new) ==
    \/ existing = NoneDict
    \/ new = NoneDict
    \/ \A id \in DOMAIN existing \cap DOMAIN new :
        \A n \in 1..Len(ListFields) :
            LET f == ListFields[n]
            IN  (HasValue(existing[id], f) /\ new[id] # NoneDict /\ HasValue(new[id], f))
                => Size(existing[id][f]) + Size(new[id][f]) <= MaxFacts

(***************************************************************************)
(* merge_scenes and merge_chapters                                         *)
(*                                                                         *)
(* A scene is a dict over content, structured_reflection and               *)
(* reflection_notes, a chapter a dict over title, outline, scenes and      *)
(* reflection_notes.  The fields hold tagged values as those of a          *)
(* character do, except scenes, which holds a dict scene id -> scene;      *)
(* NoneDict is a None in the place of a dict.  Both functions build new    *)
(* dicts and new lists (copy and +), so values suffice.                    *)
(***************************************************************************)
Revised == "Scene has been revised"

\* Variant of IsRevised with a plausible slip: the revision note is not
\* recognised, so it is appended as every other note.
IsRevised_Never(notes) == FALSE

\* len(notes) == 1 and notes[0] == "Scene has been revised", for a list
IsRevised(notes) == Len(notes.list) = 1 /\ notes.list[1] = Revised

\* Variant of MergeSceneField with a plausible slip: the value is not tested,
\* so an empty value of the delta replaces the existing one.
MergeSceneField_Always(result_scene, scene_data, field) ==
    IF Has(scene_data, field)
    THEN Put(result_scene, field, scene_data[field])
    ELSE result_scene

\* `if "content" in scene_data and scene_data["content"]` and the same
\* statement for structured_reflection
MergeSceneField(result_scene, scene_data, field) ==
    IF Has(scene_data, field) /\ PyTruthy(scene_data[field])
    THEN Put(result_scene, field, scene_data[field])
    ELSE result_scene

\* the `if "reflection_notes" in scene_data` statement raises: len(None), or
\* + with an existing value that is not a list
SceneNotesRaise(result_scene, scene_data) ==
    /\ Has(scene_data, "reflection_notes")
    /\ LET notes == scene_data["reflection_notes"]
       IN  \/ notes.kind = "none"
           \/ /\ ~IsRevised(notes)
              /\ PyTruthy(notes)
              /\ Has(result_scene, "reflection_notes")
              /\ AddRaises(result_scene["reflection_notes"], notes)

\* the `if "reflection_notes" in scene_data` statement
MergeSceneNotes(result_scene, scene_data) ==
    IF ~Has(scene_data, "reflection_notes") THEN result_scene
    ELSE LET notes == scene_data["reflection_notes"]
         IN  IF IsRevised(notes)
             THEN Put(result_scene, "reflection_notes", notes)
             ELSE IF PyTruthy(notes)
             THEN IF Has(result_scene, "reflection_notes")
                  THEN Put(result_scene, "reflection_notes",
                           PyAdd(result_scene["reflection_notes"], notes))
                  ELSE Put(result_scene, "reflection_notes", notes)
             ELSE result_scene

\* the body of `if scene_id in result`
UpdateScene(result_scene, scene_data) ==
    MergeSceneNotes(
        MergeSceneField(
            MergeSceneField(result_scene, scene_data, "content"),
            scene_data, "structured_reflection"),
        scene_data)

\* the call raises: None has no copy() and no items(), or an iteration raises
merge_scenes_raises(existing, new) ==
    \/ existing = NoneDict
    \/ new = NoneDict
    \/ \E id \in DOMAIN existing \cap DOMAIN new :
        SceneNotesRaise(existing[id], new[id])

\* Variant of merge_scenes with a plausible slip: the result is built from
\* the scenes of the delta only, so a scene that the delta leaves out is lost.
merge_scenes_DeltaOnly(existing, new) ==
    [id \in DOMAIN new |->
        IF Has(existing, id) THEN UpdateScene(existing[id], new[id])
        ELSE new[id]]

\* the loop over new.items(): every iteration reads and writes
\* result[scene_id] only, so the result is given key by key
merge_scenes(existing, new) ==
    [id \in DOMAIN existing \cup DOMAIN new |->
        IF ~Has(new, id) THEN existing[id]
        ELSE IF Has(existing, id) THEN UpdateScene(existing[id], new[id])
        ELSE new[id]]

\* the `if "scenes" in chapter_data` statement raises
ChapterScenesRaise(result_chapter, chapter_data) ==
    /\ Has(chapter_data, "scenes")
    /\ merge_scenes_raises(Get(result_chapter, "scenes", EmptyDict),
                           chapter_data["scenes"])

\* Variant of MergeChapterScenes with a plausible slip: the delta's scenes
\* replace the chapter's instead of being merged into them.
MergeChapterScenes_Replace(result_chapter, chapter_data) ==
    IF Has(chapter_data, "scenes")
    THEN Put(result_chapter, "scenes", chapter_data["scenes"])
    ELSE result_chapter

\* the `if "scenes" in chapter_data` statement
MergeChapterScenes(result_chapter, chapter_data) ==
    IF Has(chapter_data, "scenes")
    THEN Put(result_chapter, "scenes",
             merge_scenes(Get(result_chapter, "scenes", EmptyDict),
                          chapter_data["scenes"]))
    ELSE result_chapter

\* the chapter's `if "reflection_notes" in chapter_data and ...` raises
ChapterNotesRaise(result_chapter, chapter_data) ==
    /\ Has(chapter_data, "reflection_notes")
    /\ PyTruthy(chapter_data["reflection_notes"])
    /\ Has(result_chapter, "reflection_notes")
    /\ AddRaises(result_chapter["reflection_notes"],
                 chapter_data["reflection_notes"])

\* Variant of MergeChapterNotes with a plausible slip: the delta's notes
\* replace the chapter's instead of following them.
MergeChapterNotes_Replace(result_chapter, chapter_data) ==
    IF Has(chapter_data, "reflection_notes")
       /\ PyTruthy(chapter_data["reflection_notes"])
    THEN Put(result_chapter, "reflection_notes",
             chapter_data["reflection_notes"])
    ELSE result_chapter

\* the chapter's `if "reflection_notes" in chapter_data and ...` statement
MergeChapterNotes(result_chapter, chapter_data) ==
    IF Has(chapter_data, "reflection_notes")
       /\ PyTruthy(chapter_data["reflection_notes"])
    THEN IF Has(result_chapter, "reflection_notes")
         THEN Put(result_chapter, "reflection_notes",
                  PyAdd(result_chapter["reflection_notes"],
                        chapter_data["reflection_notes"]))
         ELSE Put(result_chapter, "reflection_notes",
                  chapter_data["reflection_notes"])
    ELSE result_chapter

\* one iteration of `for field in ["title", "outline"]`
MergeChapterField(result_chapter, chapter_data, field) ==
    IF Has(chapter_data, field) /\ PyTruthy(chapter_data[field])
    THEN Put(result_chapter, field, chapter_data[field])
    ELSE result_chapter

\* the body of `if chapter_id in result`
UpdateChapter(result_chapter, chapter_data) ==
    MergeChapterField(
        MergeChapterField(
            MergeChapterNotes(
                MergeChapterScenes(result_chapter, chapter_data),
                chapter_data),
            chapter_data, "title"),
        chapter_data, "outline")

\* the call raises instead of returning
merge_chapters_raises(existing, new) ==
    \/ existing = NoneDict
    \/ new = NoneDict
    \/ \E id \in DOMAIN existing \cap DOMAIN new :
        \/ ChapterScenesRaise(existing[id], new[id])
        \/ ChapterNotesRaise(existing[id], new[id])

\* Variant of merge_chapters with a plausible slip: the result starts from
\* the delta, not from a copy of existing.
merge_chapters_NewOnly(existing, new) == new

\* the loop over new.items(), key by key as in merge_scenes
merge_chapters(existing, new) ==
    [id \in DOMAIN existing \cup DOMAIN new |->
        IF ~Has(new, id) THEN existing[id]
        ELSE IF Has(existing, id) THEN UpdateChapter(existing[id], new[id])
        ELSE new[id]]

(***************************************************************************)
(* The deltas a node may return for the chapters key.                      *)
(***************************************************************************)
ChapterIds == {"1"}
SceneIds == {"1", "2"}
Contents == {"", "A", "A expanded"}
Reflections == {EmptyDict, [issues |-> "pacing"], [issues |-> "none"]}

\* reflection_notes of a scene delta: absent, None, or a list
SceneNotesValues ==
    {Absent, Present(PyNone)}
        \cup {Present(PyList(l)) : l \in {<<>>, <<"too short">>, <<Revised>>}}

ContentValues == {Absent} \cup {Present(PyStr(c)) : c \in Contents}

ReflectionValues == {Absent} \cup {Present(PyDict(m)) : m \in Reflections}

SceneData(c, s, n) ==
    LET opt == [content |-> c, structured_reflection |-> s,
                reflection_notes |-> n]
    IN  [k \in {x \in DOMAIN opt : opt[x].present} |-> opt[k].val]

\* a scene delta gives content with notes, or content with a structured
\* reflection, or a revision note followed by another note
SceneDatas ==
    {SceneData(c, Absent, n) : c \in ContentValues, n \in SceneNotesValues}
        \cup {SceneData(c, r, Absent) :
                c \in {Absent, Present(PyStr("A"))}, r \in ReflectionValues}
        \cup {OneField("reflection_notes", PyList(<<Revised, "too short">>))}

\* {chapter_id: {"scenes": {scene_id: scene_data}}}
SceneDelta(chapter_id, scene_id, scene_data) ==
    [c \in {chapter_id} |->
        OneField("scenes", [sc \in {scene_id} |-> scene_data])]

\* a chapter with a title and two scenes
TwoSceneChapter ==
    [title |-> PyStr("T"),
     scenes |-> [sc \in SceneIds |->
                    IF sc = "1"
                    THEN [content |-> PyStr("A"),
                          reflection_notes |-> PyList(<<"too short">>)]
                    ELSE [content |-> PyStr("B")]]]

\* the updates of the scene writing and revision nodes
SceneDeltas ==
    {EmptyDict, NoneDict}
        \cup {[c \in {ch} |-> TwoSceneChapter] : ch \in ChapterIds}
        \cup {[c \in {ch} |-> OneField("scenes", NoneDict)] : ch \in ChapterIds}
        \cup {SceneDelta(ch, "1", data) : ch \in ChapterIds, data \in SceneDatas}

\* appended notes stay within the bound
NotesFit(old, data) ==
    (Has(old, "reflection_notes") /\ Has(data, "reflection_notes"))
    => \/ IsRevised(data["reflection_notes"])
       \/ Size(old["reflection_notes"]) + Size(data["reflection_notes"])
            <= MaxNotes

ScenesOf(chapter) == Get(chapter, "scenes", EmptyDict)

WithinNotesBound(existing, new) ==
    \/ new = NoneDict
    \/ \A c \in DOMAIN existing \cap DOMAIN new :
        /\ NotesFit(existing[c], new[c])
        /\ (ScenesOf(existing[c]) # NoneDict /\ ScenesOf(new[c]) # NoneDict)
           => \A sc \in DOMAIN ScenesOf(existing[c]) \cap DOMAIN ScenesOf(new[c]) :
                NotesFit(ScenesOf(existing[c])[sc], ScenesOf(new[c])[sc])

(***************************************************************************)
(* merge_world_elements and merge_creative_elements                        *)
(*                                                                         *)
(* world_elements maps a category to a dict of fields.  A list field is    *)
(* extended in place (append), and the copies that the function makes are  *)
(* shallow, so a list is an object of the memory we_heap and the field     *)
(* holds a reference to it; the other values are not written to and are    *)
(* kept as values.  An item of a list is a string or a number: a record    *)
(* [type, text], text being what str(item) gives.                          *)
(***************************************************************************)
WorldItem(type, text) == [type |-> type, text |-> text]

\* str(item)
StrOf(item) == item.text

\* a field that holds the list object ref
WRef(ref) == [kind |-> "ref", ref |-> ref]

\* the loop `for item in value`: existing_items is computed once, before the
\* loop
AppendUnseen(existing_list, value) ==
    LET existing_items == {StrOf(existing_list[i]) : i \in 1..Len(existing_list)}
        Unseen(item) == StrOf(item) \notin existing_items
    IN  existing_list \o SelectSeq(value, Unseen)

\* `result_category[key] = value` with a value of the delta: a list of the
\* delta becomes an object of the memory.  m is [cat, heap]
StoreField(m, key, value) ==
    IF value.kind = "list"
    THEN [cat |-> Put(m.cat, key, WRef(Len(m.heap) + 1)),
          heap |-> Append(m.heap, value.list)]
    ELSE [m EXCEPT !.cat = Put(m.cat, key, value)]

\* Variant of FieldStep with a plausible slip: the test `if value` is
\* missing, so an empty value of the delta replaces the existing one.
FieldStep_Always(m, key, value) ==
    IF Has(m.cat, key)
    THEN LET current == m.cat[key]
         IN  IF value.kind = "list" /\ current.kind = "ref"
             THEN [m EXCEPT !.heap[current.ref] =
                                AppendUnseen(m.heap[current.ref], value.list)]
             ELSE IF value.kind = "dict" /\ current.kind = "dict"
             THEN [m EXCEPT !.cat = Put(m.cat, key,
                                        PyDict(MergeDicts(current.map, value.map)))]
             ELSE StoreField(m, key, value)
    ELSE StoreField(m, key, value)

\* one iteration of `for key, value in elements.items()`
FieldStep(m, key, value) ==
    IF Has(m.cat, key)
    THEN LET current == m.cat[key]
         IN  IF value.kind = "list" /\ current.kind = "ref"
             THEN [m EXCEPT !.heap[current.ref] =
                                AppendUnseen(m.heap[current.ref], value.list)]
             ELSE IF value.kind = "dict" /\ current.kind = "dict"
             THEN [m EXCEPT !.cat = Put(m.cat, key,
                                        PyDict(MergeDicts(current.map, value.map)))]
             ELSE IF PyTruthy(value) THEN StoreField(m, key, value)
             ELSE m
    ELSE StoreField(m, key, value)

\* the fields in the order of the loop
WorldKeys == <<"places", "climate">>

RECURSIVE FieldLoop(_, _, _)
FieldLoop(m, elements, keys) ==
    IF keys = <<>> THEN m
    ELSE IF Has(elements, Head(keys))
    THEN FieldLoop(FieldStep(m, Head(keys), elements[Head(keys)]),
                   elements, Tail(keys))
    ELSE FieldLoop(m, elements, Tail(keys))

\* One iteration of `for category, elements in new.items()`.  m is
\* [result, heap, raised].  None has no copy() and no items(); a category
\* that is new is put into result as the delta gives it.
CategoryStep(m, category, elements) ==
    IF m.raised THEN m
    ELSE IF Has(m.result, category)
    THEN IF m.result[category] = NoneDict \/ elements = NoneDict
         THEN [m EXCEPT !.raised = TRUE]
         ELSE LET r == FieldLoop([cat |-> m.result[category], heap |-> m.heap],
                                 elements, WorldKeys)
              IN  [m EXCEPT !.result = Put(m.result, category, r.cat),
                            !.heap = r.heap]
    ELSE IF elements = NoneDict
    THEN [m EXCEPT !.result = Put(m.result, category, NoneDict)]
    ELSE LET r == FieldLoop([cat |-> EmptyDict, heap |-> m.heap],
                            elements, WorldKeys)
         IN  [m EXCEPT !.result = Put(m.result, category, r.cat),
                       !.heap = r.heap]

\* the categories in the order of the loop
WorldCategories == <<"geography", "culture">>

RECURSIVE CategoryLoop(_, _, _)
CategoryLoop(m, new, categories) ==
    IF categories = <<>> THEN m
    ELSE IF Has(new, Head(categories))
    THEN CategoryLoop(CategoryStep(m, Head(categories), new[Head(categories)]),
                      new, Tail(categories))
    ELSE CategoryLoop(m, new, Tail(categories))

\* Variant of merge_world_elements with a plausible slip: the function
\* returns at the end of the first iteration of the loop over the delta.
merge_world_elements_FirstOnly(existing, new, heap) ==
    IF existing = NoneDict \/ new = NoneDict
    THEN [result |-> existing, heap |-> heap, raised |-> TRUE]
    ELSE LET given == SelectSeq(WorldCategories, LAMBDA c : Has(new, c))
         IN  CategoryLoop([result |-> existing, heap |-> heap, raised |-> FALSE],
                          new, IF given = <<>> THEN given ELSE <<Head(given)>>)

\* merge_world_elements(existing, new) run in memory heap: the dict it
\* returns, the memory it leaves, and whether it raised instead of returning
merge_world_elements(existing, new, heap) ==
    IF existing = NoneDict \/ new = NoneDict
    THEN [result |-> existing, heap |-> heap, raised |-> TRUE]
    ELSE CategoryLoop([result |-> existing, heap |-> heap, raised |-> FALSE],
                      new, WorldCategories)

\* the value of a world elements dict in a memory
DerefWorld(elements, heap) ==
    [c \in DOMAIN elements |->
        IF elements[c] = NoneDict THEN NoneDict
        ELSE [k \in DOMAIN elements[c] |->
                IF elements[c][k].kind = "ref"
                THEN PyList(heap[elements[c][k].ref])
                ELSE elements[c][k]]]

\* None has no copy() and no items()
merge_creative_elements_raises(existing, new) ==
    existing = NoneDict \/ new = NoneDict

\* result[key] = value for every key of the delta
merge_creative_elements(existing, new) ==
    [k \in DOMAIN existing \cup DOMAIN new |->
        IF Has(new, k) THEN new[k] ELSE existing[k]]

(***************************************************************************)
(* The deltas of the nodes of a run that updates every key: for each key   *)
(* the empty delta, None, and a few deltas that build the key's value.     *)
(***************************************************************************)
DocRevelationDeltas ==
    {EmptyDict, NoneDict,
     Delta(Absent, Present(<<Issue("1", "open", "d1")>>))}

DocPlotThreadDeltas ==
    {<<>>, NoneThreads,
     <<Item("t1", ThreadData(Present("open"), Absent, Absent,
                             Present(<<Entry("1", "1", "a")>>)))>>}

\* a character without fields, with an empty fact list, with one of two facts
DocCharacterDeltas ==
    {EmptyDict, NoneDict}
        \cup {[id \in {"alice"} |-> data] :
                data \in {EmptyDict,
                          OneField("known_facts", PyList(<<>>)),
                          OneField("known_facts", PyList(<<"f1">>)),
                          OneField("known_facts", PyList(<<"f2">>))}}

\* a chapter without fields, with an empty list of notes, with one of two
\* notes, and a scene whose reflection_notes is None
DocChapterDeltas ==
    {EmptyDict, NoneDict}
        \cup {[c \in {"1"} |-> data] :
                data \in {EmptyDict,
                          OneField("reflection_notes", PyList(<<>>)),
                          OneField("reflection_notes", PyList(<<"n1">>)),
                          OneField("reflection_notes", PyList(<<"n2">>))}}
        \cup {SceneDelta("1", "1", OneField("reflection_notes", PyNone))}

DocWorldDeltas ==
    {EmptyDict, NoneDict,
     [c \in {"geography"} |->
        OneField("places", PyList(<<WorldItem("str", "x")>>))]}

\* what the nodes of a story have revealed and found before a restart
StoryRevelationDeltas ==
    {Delta(Present(<<"r1">>), Absent),
     Delta(Absent, Present(<<Issue("1", "open", "d1")>>))}

DocCreativeDeltas ==
    {EmptyDict, NoneDict,
     [k \in {"plot"} |-> PyDict([idea |-> "i1"])]}

(***************************************************************************)
(* The deltas of the worldbuilding nodes for the fields of one category:   *)
(* places holds a list, climate a dict, a string, None or a list.          *)
(***************************************************************************)
\* the items "x", 1 and "1": the last two have the same str()
WorldItems == {WorldItem("str", "x"), WorldItem("int", "1"), WorldItem("str", "1")}

PlacesValues == {PyList(l) : l \in Short(WorldItems) \cup Twice(WorldItems)}

ClimateValues ==
    {PyDict(m) : m \in {EmptyDict, [a |-> "1"], [a |-> "2"], [b |-> "1"]}}
        \cup {PyStr("wet"), PyStr(""), PyNone, PyList(<<WorldItem("str", "x")>>)}

WorldFieldDeltas ==
    {EmptyDict}
        \cup {[c \in {"geography"} |-> OneField("places", v)] : v \in PlacesValues}
        \cup {[c \in {"geography"} |-> OneField("climate", v)] : v \in ClimateValues}

(***************************************************************************)
(* The deltas of the nodes that write the entities of a key: two entities  *)
(* per key, given one at a time or both in one delta.                      *)
(***************************************************************************)
\* the dicts over one or more of keys with values of datas
DictsOver(keys, datas) ==
    UNION {[ks -> datas] : ks \in SUBSET keys}

EntityCharacterIds == {"alice", "bob"}

\* a character given as None, without fields, or with a list of facts
EntityCharDatas ==
    {NoneDict, EmptyDict,
     OneField("known_facts", PyList(<<"f1">>)),
     OneField("known_facts", PyList(<<"f2">>))}

EntityCharacterDeltas == DictsOver(EntityCharacterIds, EntityCharDatas)

\* a chapter given without fields, with a note, or with a scene
EntityChapterDatas ==
    {EmptyDict,
     OneField("reflection_notes", PyList(<<"n1">>)),
     OneField("reflection_notes", PyList(<<"n2">>))}
        \cup {OneField("scenes", [sc \in {s} |-> OneField("content", PyStr("A"))])
                : s \in SceneIds}

\* chapter 1 with any of these, chapter 2 without fields or with a note
EntityChapterDeltas ==
    {d \in DictsOver({"1", "2"}, EntityChapterDatas) :
        Has(d, "2") => ~Has(d["2"], "scenes") /\ d["2"] # OneField("reflection_notes", PyList(<<"n2">>))}

EntityThreadDatas ==
    {ThreadData(Present("open"), Absent, Absent, Absent),
     ThreadData(Present("resolved"), Absent, Absent, Absent),
     ThreadData(Present("open"), Absent, Absent,
                Present(<<Entry("1", "1", "a")>>))}

\* the items of one thread, or of two threads in either order
EntityThreadDeltas ==
    {<<>>}
        \cup {<<Item(n, data)>> : n \in {"t1", "t2"}, data \in EntityThreadDatas}
        \cup {<<Item(n[1], d1), Item(n[2], d2)>> :
                n \in {<<"t1", "t2">>, <<"t2", "t1">>},
                d1 \in EntityThreadDatas, d2 \in EntityThreadDatas}

EntityCategoryDatas ==
    {EmptyDict,
     OneField("places", PyList(<<WorldItem("str", "x")>>)),
     OneField("places", PyList(<<WorldItem("str", "y")>>)),
     OneField("climate", PyStr("wet"))}

EntityWorldDeltas == DictsOver({"geography", "culture"}, EntityCategoryDatas)

EntityCreativeDeltas ==
    DictsOver({"plot", "theme"},
              {PyDict([idea |-> "i1"]), PyDict([idea |-> "i2"])})

EntityRevelationDeltas ==
    {Delta(r, i) :
        r \in Optional({<<"r1">>}),
        i \in Optional({<<Issue("1", "open", "d1")>>,
                        <<Issue("2", "completed", "d1")>>})}

(***************************************************************************)
(* merge_lists: the two arguments are lists or None, as tagged values.     *)
(***************************************************************************)
merge_lists(existing, new) ==
    IF ~PyTruthy(existing) THEN new
    ELSE IF ~PyTruthy(new) THEN existing
    ELSE PyAdd(existing, new)

ListItems == {"a", "b", "c"}

\* the second argument of a call: None or a short list
ListDeltas == {PyNone} \cup {PyList(l) : l \in Short(ListItems) \cup Twice(ListItems)}

\* the list that v holds, the empty list for None
OrEmpty(v) == IF v.kind = "list" THEN v.list ELSE <<>>

(***************************************************************************)
(* The messages key.  Its reducer is add_messages of the graph library,    *)
(* which the repository declares for the key and does not define: it is    *)
(* modelled from the specification (an ordered append log; the removal     *)
(* markers of a delta are applied, then its messages are appended).  A     *)
(* message is a record [type, id, content]; a message made by a node has   *)
(* no id (None) and gets a new one when it is appended.                    *)
(***************************************************************************)
RemoveMessage(id) == [type |-> "remove", id |-> id, content |-> ""]

AIMessage(content) == [type |-> "ai", id |-> None, content |-> content]

\* the ids of the messages of a list
IdsOf(msgs) == {msgs[i].id : i \in 1..Len(msgs)}

\* the ids that the removal markers of a delta name
RemovedBy(right) ==
    {right[i].id : i \in {j \in 1..Len(right) : right[j].type = "remove"}}

\* an id that no message of used has
NewId(used) ==
    LET n == CHOOSE i \in 1..(Len(Digits) - 1) :
                /\ IndexStr(i) \notin used
                /\ \A j \in 1..(i - 1) : IndexStr(j) \in used
    IN  IndexStr(n)

\* msgs appended to log one by one; used holds the ids already given
RECURSIVE AppendMessages(_, _, _)
AppendMessages(log, msgs, used) ==
    IF msgs = <<>> THEN log
    ELSE LET m == Head(msgs)
             id == IF m.id = None THEN NewId(used) ELSE m.id
         IN  AppendMessages(Append(log, [m EXCEPT !.id = id]), Tail(msgs),
                            used \cup {id})

\* add_messages(left, right): removals first, then appends
add_messages(left, right) ==
    LET removed == RemovedBy(right)
        Kept(m) == m.id \notin removed
        Appended(m) == m.type # "remove"
    IN  AppendMessages(SelectSeq(left, Kept), SelectSeq(right, Appended),
                       IdsOf(left) \cup IdsOf(right))

\* Variant of ResetMessages with a plausible slip: the ids are those of the
\* messages before the last one.
ResetMessages_ButLast(state_messages, new_msg) ==
    [i \in 1..(Len(state_messages) - 1) |-> RemoveMessage(state_messages[i].id)]
        \o <<new_msg>>

\* message_ids = [msg.id for msg in state.get("messages", [])] and the list
\* [*[RemoveMessage(id=msg_id) for msg_id in message_ids], new_msg]
ResetMessages(state_messages, new_msg) ==
    [i \in 1..Len(state_messages) |-> RemoveMessage(state_messages[i].id)]
        \o <<new_msg>>

\* response_message of initialize_state and the content of new_msg of
\* brainstorm_story_concepts
ResponseMessage == "I'll create a story for you"

BrainstormMessage == "I've brainstormed several creative concepts"

\* the dict that initialize_state returns, for the keys that have a reducer
InitializeStateDelta(state_messages) ==
    [chapters |-> EmptyDict,
     characters |-> EmptyDict,
     revelations |-> [reader |-> <<>>, characters |-> <<>>],
     messages |-> ResetMessages(state_messages, AIMessage(ResponseMessage))]

\* the dict that brainstorm_story_concepts returns
BrainstormDelta(state_messages) ==
    [creative_elements |->
        [k \in {"story_concepts", "world_building", "central_conflicts"} |->
            PyStr("ideas")],
     messages |-> ResetMessages(state_messages, AIMessage(BrainstormMessage))]

\* the messages of the other nodes
NodeMessages == {"outline", "scene"}

(***************************************************************************)
(* The engine applies a key's reducer to the key's current value and a     *)
(* node's delta, then goes on to the next node.  rev_call and pt_call      *)
(* describe the call between the two steps.  A reducer that raises ends    *)
(* the run.                                                                *)
(***************************************************************************)
NoCall ==
    [called |-> FALSE, raised |-> FALSE, existing |-> EmptyDict,
     new |-> EmptyDict]

\* no reducer call is in progress: the engine applies one update at a time
Idle ==
    /\ ~rev_call.called
    /\ ~pt_call.called
    /\ ~ch_call.called
    /\ ~chap_call.called
    /\ ~we_call.called
    /\ ~ce_call.called
    /\ ~msg_call.called
    /\ ~ml_call.called
    /\ ~exp_call.called
    /\ ~pr_call.called

\* a node returns one of deltas for the revelations key
MergeRevelationsOf(deltas) ==
    /\ Idle
    /\ \E new \in deltas :
        LET raised == merge_revelations_raises(revelations, new)
        IN  /\ WithinReaderBound(revelations, new)
            /\ rev_call' = [called |-> TRUE, raised |-> raised,
                            existing |-> revelations, new |-> new]
            /\ revelations' = IF raised THEN revelations
                               ELSE merge_revelations(revelations, new)
    /\ UNCHANGED exceptRevelations

MergeRevelations == MergeRevelationsOf(RevelationDeltas)

NextNodeRevelations ==
    /\ rev_call.called
    /\ ~rev_call.raised
    /\ rev_call' = NoCall
    /\ UNCHANGED <<revelations, exceptRevelations>>

\* existing is the dict passed, before its value in the memory at the call
NoThreadCall ==
    [called |-> FALSE, raised |-> FALSE, existing |-> EmptyDict,
     before |-> EmptyDict, new |-> <<>>]

\* a node returns one of deltas for the plot_threads key
MergePlotThreadsOf(deltas) ==
    /\ Idle
    /\ \E new \in deltas :
        LET m == merge_plot_threads(plot_threads, new, pt_heap)
        IN  /\ pt_call' = [called |-> TRUE, raised |-> m.raised,
                           existing |-> plot_threads,
                           before |-> Deref(plot_threads, pt_heap),
                           new |-> new]
            /\ pt_heap' = m.heap
            /\ plot_threads' = IF m.raised THEN plot_threads ELSE m.result
    /\ UNCHANGED exceptPlotThreads

MergePlotThreads == MergePlotThreadsOf(PlotThreadDeltas)

MergeSeparatorThreads == MergePlotThreadsOf(SeparatorThreadDeltas)

NextNodePlotThreads ==
    /\ pt_call.called
    /\ ~pt_call.raised
    /\ pt_call' = NoThreadCall
    /\ UNCHANGED <<plot_threads, pt_heap, exceptPlotThreads>>

NoCharacterCall ==
    [called |-> FALSE, raised |-> FALSE, existing |-> EmptyDict,
     new |-> EmptyDict]

\* a node returns one of deltas for the characters key
MergeCharactersOf(deltas) ==
    /\ Idle
    /\ \E new \in deltas :
        LET raised == merge_characters_raises(characters, new)
        IN  /\ WithinFactBound(characters, new)
            /\ ch_call' = [called |-> TRUE, raised |-> raised,
                           existing |-> characters, new |-> new]
            /\ characters' = IF raised THEN characters
                              ELSE merge_characters(characters, new)
    /\ UNCHANGED exceptCharacters

MergeCharacters == MergeCharactersOf(CharacterDeltas)

MergeMalformedCharacters == MergeCharactersOf(MalformedCharacterDeltas)

NextNodeCharacters ==
    /\ ch_call.called
    /\ ~ch_call.raised
    /\ ch_call' = NoCharacterCall
    /\ UNCHANGED <<characters, exceptCharacters>>

NoChapterCall ==
    [called |-> FALSE, raised |-> FALSE, existing |-> EmptyDict,
     new |-> EmptyDict]

\* a node returns one of deltas for the chapters key
MergeChaptersOf(deltas) ==
    /\ Idle
    /\ \E new \in deltas :
        LET raised == merge_chapters_raises(chapters, new)
        IN  /\ WithinNotesBound(chapters, new)
            /\ chap_call' = [called |-> TRUE, raised |-> raised,
                             existing |-> chapters, new |-> new]
            /\ chapters' = IF raised THEN chapters
                            ELSE merge_chapters(chapters, new)
    /\ UNCHANGED exceptChapters

MergeSceneChapters == MergeChaptersOf(SceneDeltas)

NextNodeChapters ==
    /\ chap_call.called
    /\ ~chap_call.raised
    /\ chap_call' = NoChapterCall
    /\ UNCHANGED <<chapters, exceptChapters>>

\* existing is the dict passed, before its value in the memory at the call
NoWorldCall ==
    [called |-> FALSE, raised |-> FALSE, existing |-> EmptyDict,
     before |-> EmptyDict, new |-> EmptyDict]

\* a node returns one of deltas for the world_elements key
MergeWorldElementsOf(deltas) ==
    /\ Idle
    /\ \E new \in deltas :
        LET m == merge_world_elements(world_elements, new, we_heap)
        IN  /\ Len(m.heap) <= MaxObjects
            /\ we_call' = [called |-> TRUE, raised |-> m.raised,
                           existing |-> world_elements,
                           before |-> DerefWorld(world_elements, we_heap),
                           new |-> new]
            /\ we_heap' = m.heap
            /\ world_elements' = IF m.raised THEN world_elements ELSE m.result
    /\ UNCHANGED exceptWorldElements

MergeWorldFields == MergeWorldElementsOf(WorldFieldDeltas)

NextNodeWorldElements ==
    /\ we_call.called
    /\ ~we_call.raised
    /\ we_call' = NoWorldCall
    /\ UNCHANGED <<world_elements, we_heap, exceptWorldElements>>

NoCreativeCall ==
    [called |-> FALSE, raised |-> FALSE, existing |-> EmptyDict,
     new |-> EmptyDict]

\* a node returns one of deltas for the creative_elements key
MergeCreativeElementsOf(deltas) ==
    /\ Idle
    /\ \E new \in deltas :
        LET raised == merge_creative_elements_raises(creative_elements, new)
        IN  /\ ce_call' = [called |-> TRUE, raised |-> raised,
                           existing |-> creative_elements, new |-> new]
            /\ creative_elements' =
                    IF raised THEN creative_elements
                    ELSE merge_creative_elements(creative_elements, new)
    /\ UNCHANGED exceptCreativeElements

NextNodeCreativeElements ==
    /\ ce_call.called
    /\ ~ce_call.raised
    /\ ce_call' = NoCreativeCall
    /\ UNCHANGED <<creative_elements, exceptCreativeElements>>

\* node is the function that returned the delta new of messages
NoMessagesCall ==
    [called |-> FALSE, node |-> "", existing |-> <<>>, new |-> <<>>]

\* a node returns one message for the messages key
AppendMessage ==
    /\ Idle
    /\ Len(messages) < MaxMessages
    /\ \E content \in NodeMessages :
        LET new == <<AIMessage(content)>>
        IN  /\ msg_call' = [called |-> TRUE, node |-> "node",
                            existing |-> messages, new |-> new]
            /\ messages' = add_messages(messages, new)
    /\ UNCHANGED <<revVars, ptVars, chVars, chapVars, weVars, ceVars, mlVars,
                   expVars, prVars>>

\* the node initialize_state runs and the engine merges what it returns
InitializeState ==
    /\ Idle
    /\ LET new == InitializeStateDelta(messages)
       IN  /\ msg_call' = [called |-> TRUE, node |-> "initialize_state",
                           existing |-> messages, new |-> new.messages]
           /\ messages' = add_messages(messages, new.messages)
           /\ chapters' = merge_chapters(chapters, new.chapters)
           /\ characters' = merge_characters(characters, new.characters)
           /\ revelations' = merge_revelations(revelations, new.revelations)
    /\ UNCHANGED <<rev_call, ptVars, ch_call, chap_call, weVars, ceVars, mlVars,
                   expVars, prVars>>

\* the node brainstorm_story_concepts runs and the engine merges what it
\* returns
BrainstormStoryConcepts ==
    /\ Idle
    /\ LET new == BrainstormDelta(messages)
       IN  /\ msg_call' = [called |-> TRUE, node |-> "brainstorm_story_concepts",
                           existing |-> messages, new |-> new.messages]
           /\ messages' = add_messages(messages, new.messages)
           /\ creative_elements' =
                  merge_creative_elements(creative_elements, new.creative_elements)
    /\ UNCHANGED <<revVars, ptVars, chVars, chapVars, weVars, ce_call, mlVars,
                   expVars, prVars>>

NextNodeMessages ==
    /\ msg_call.called
    /\ msg_call' = NoMessagesCall
    /\ UNCHANGED <<messages, revVars, ptVars, chVars, chapVars, weVars, ceVars,
                   mlVars, expVars, prVars>>

NoListCall == [called |-> FALSE, existing |-> PyNone, new |-> PyNone]

\* a caller merges a delta into the list it keeps
MergeLists ==
    /\ Idle
    /\ \E new \in ListDeltas :
        /\ Len(OrEmpty(list_value)) + Len(OrEmpty(new)) <= MaxList
        /\ ml_call' = [called |-> TRUE, existing |-> list_value, new |-> new]
        /\ list_value' = merge_lists(list_value, new)
    /\ UNCHANGED <<revVars, ptVars, chVars, chapVars, weVars, ceVars, msgVars,
                   expVars, prVars>>

NextCallLists ==
    /\ ml_call.called
    /\ ml_call' = NoListCall
    /\ UNCHANGED <<list_value, revVars, ptVars, chVars, chapVars, weVars, ceVars,
                   msgVars, expVars, prVars>>

(***************************************************************************)
(* exposition.py: the tracker of the key concepts                          *)
(*                                                                         *)
(* The tracker is the dict {"key_concepts": [concept, ...]} that the       *)
(* functions keep in the memory store under the key key_concepts_tracker.  *)
(* A concept is a record of the fields that the functions read or write;   *)
(* description, importance and exposition_approach are carried along and   *)
(* never looked at.  The store is an external key/value store: a call to   *)
(* it may raise, a search returns the value that was written last, and a   *)
(* value read from it is a copy.                                           *)
(***************************************************************************)
\* a concept as identify_key_concepts gives it: the fields after
\* recommended_chapter have their defaults
Concept(name, recommended_chapter) ==
    [name |-> name, recommended_chapter |-> recommended_chapter,
     introduced |-> FALSE, introduction_chapter |-> "",
     introduction_scene |-> "", clarity_score |-> 0]

\* no value under the key, and the dict {"key_concepts": concepts}
NoTracker == [present |-> FALSE, key_concepts |-> <<>>]
Tracker(concepts) == [present |-> TRUE, key_concepts |-> concepts]

\* search_memory_tool.invoke({"query": "key_concepts_tracker", ...}): the
\* value kept under the key, if any
SearchMemory(store) == store

\* manage_memory_tool.invoke({"action": "create", "key":
\* "key_concepts_tracker", "value": value, ...}): the store afterwards
CreateMemory(store, value) == value

\* the dict {} that a function returns, and the dict with one key that
\* holds a list of concepts: {"key_concepts_tracker": {"key_concepts": l}}
\* or {"concepts_to_introduce": l}
EmptyReturn == [empty |-> TRUE, concepts |-> <<>>]
ReturnOf(concepts) == [empty |-> FALSE, concepts |-> concepts]

\* the four assignments to a concept whose name is concept_name
MarkIntroduced(concept, state) ==
    [concept EXCEPT !.introduced = TRUE,
                    !.introduction_chapter = state.current_chapter,
                    !.introduction_scene = state.current_scene,
                    !.clarity_score = 7]

\* Variant of UpdatedConcepts with a plausible slip: the append is inside
\* the if, so only the concepts of that name are kept.
UpdatedConcepts_MatchingOnly(key_concepts, concept_name, state) ==
    LET Named(concept) == concept.name = concept_name
        matching == SelectSeq(key_concepts, Named)
    IN  [i \in 1..Len(matching) |-> MarkIntroduced(matching[i], state)]

\* the list updated_concepts after the loop over the tracker's concepts
UpdatedConcepts(key_concepts, concept_name, state) ==
    [i \in 1..Len(key_concepts) |->
        IF key_concepts[i].name = concept_name
        THEN MarkIntroduced(key_concepts[i], state)
        ELSE key_concepts[i]]

\* update_concept_introduction_status(state, concept_name) with the store
\* as it is and with the calls to it raising or not, as raises = [search,
\* create] says (the second call is made only when a tracker was found):
\* what it returns and the store it leaves.  An exception of the store is
\* caught.
update_concept_introduction_status(state, concept_name, store, raises) ==
    IF raises.search THEN [returned |-> EmptyReturn, store |-> store]
    ELSE LET key_concepts_tracker == SearchMemory(store)
         IN  IF ~key_concepts_tracker.present
             THEN [returned |-> EmptyReturn, store |-> store]
             ELSE LET updated_concepts ==
                          UpdatedConcepts(key_concepts_tracker.key_concepts,
                                          concept_name, state)
                      updated_tracker == Tracker(updated_concepts)
                  IN  IF raises.create
                      THEN [returned |-> EmptyReturn, store |-> store]
                      ELSE [returned |-> ReturnOf(updated_concepts),
                            store |-> CreateMemory(store, updated_tracker)]

\* Variant of ToIntroduce with a plausible slip: the test of the introduced
\* flag is missing.
ToIntroduce_AnyFlag(concept, state) ==
    concept.recommended_chapter = state.current_chapter

\* the test of the loop of check_concept_introduction
ToIntroduce(concept, state) ==
    /\ concept.recommended_chapter = state.current_chapter
    /\ ~concept.introduced

\* check_concept_introduction(state): what it returns
check_concept_introduction(state, store, search_raises) ==
    IF search_raises THEN EmptyReturn
    ELSE LET key_concepts_tracker == SearchMemory(store)
         IN  IF ~key_concepts_tracker.present THEN EmptyReturn
             ELSE LET Due(concept) == ToIntroduce(concept, state)
                      concepts_for_current_chapter ==
                          SelectSeq(key_concepts_tracker.key_concepts, Due)
                  IN  IF concepts_for_current_chapter = <<>> THEN EmptyReturn
                      ELSE ReturnOf(concepts_for_current_chapter)

(***************************************************************************)
(* The stories and the concepts of the calls.                              *)
(***************************************************************************)
ConceptNames == {"magic", "guild"}
StoryChapters == {"1", "2"}
StoryScenes == {"1", "2"}

\* state["current_chapter"] and state["current_scene"]
StoryStates ==
    {[current_chapter |-> c, current_scene |-> s] :
        c \in StoryChapters, s \in StoryScenes}

\* what identify_key_concepts may return: no concept (also after an error),
\* or up to MaxConcepts concepts, two of which may have the same name
KeyConceptsAnalyses ==
    SeqUpTo({Concept(n, c) : n \in ConceptNames, c \in StoryChapters},
            MaxConcepts)

NoExpositionCall ==
    [called |-> FALSE, op |-> "", concept_name |-> "",
     state |-> [current_chapter |-> "", current_scene |-> ""],
     before |-> NoTracker, store_raises |-> FALSE, raised |-> FALSE,
     returned |-> EmptyReturn]

exceptExposition ==
    <<revVars, ptVars, chVars, chapVars, weVars, ceVars, msgVars, mlVars, prVars>>

\* track_key_concepts(state): the analysis is stored as the tracker; an
\* exception of the store is not caught
TrackKeyConcepts ==
    /\ Idle
    /\ \E key_concepts_analysis \in KeyConceptsAnalyses,
          create_raises \in BOOLEAN :
        /\ memory' = IF create_raises THEN memory
                     ELSE CreateMemory(memory, Tracker(key_concepts_analysis))
        /\ marked' = IF create_raises THEN marked ELSE {}
        /\ exp_call' = [called |-> TRUE, op |-> "track_key_concepts",
                        concept_name |-> "",
                        state |-> NoExpositionCall.state,
                        before |-> memory, store_raises |-> create_raises,
                        raised |-> create_raises,
                        returned |-> IF create_raises THEN EmptyReturn
                                     ELSE ReturnOf(key_concepts_analysis)]
    /\ UNCHANGED exceptExposition

\* a caller reports that a concept has been introduced
UpdateConceptIntroductionStatus ==
    /\ Idle
    /\ \E state \in StoryStates, concept_name \in ConceptNames,
          search_raises \in BOOLEAN, create_raises \in BOOLEAN :
        LET raises == [search |-> search_raises, create |-> create_raises]
            r == update_concept_introduction_status(state, concept_name,
                                                    memory, raises)
            done == {r.returned.concepts[i].name :
                        i \in {j \in 1..Len(r.returned.concepts) :
                                 r.returned.concepts[j].name = concept_name}}
        IN  /\ memory' = r.store
            /\ marked' = marked \cup done
            /\ exp_call' = [called |-> TRUE,
                            op |-> "update_concept_introduction_status",
                            concept_name |-> concept_name, state |-> state,
                            before |-> memory,
                            store_raises |-> search_raises \/ create_raises,
                            raised |-> FALSE, returned |-> r.returned]
    /\ UNCHANGED exceptExposition

\* a caller asks which concepts the current chapter should introduce
CheckConceptIntroduction ==
    /\ Idle
    /\ \E state \in StoryStates, search_raises \in BOOLEAN :
        /\ exp_call' = [called |-> TRUE, op |-> "check_concept_introduction",
                        concept_name |-> "", state |-> state,
                        before |-> memory, store_raises |-> search_raises,
                        raised |-> FALSE,
                        returned |-> check_concept_introduction(state, memory,
                                                                search_raises)]
    /\ UNCHANGED <<memory, marked, exceptExposition>>

NextCallExposition ==
    /\ exp_call.called
    /\ exp_call' = NoExpositionCall
    /\ UNCHANGED <<memory, marked, exceptExposition>>

InitMemory ==
    /\ memory = NoTracker
    /\ marked = {}
    /\ exp_call = NoExpositionCall

(***************************************************************************)
(* __init__.py: progress tracking                                          *)
(*                                                                         *)
(* The module keeps three globals.  g is the record of their values:       *)
(* [progress_callback, start_time, node_counts].  A call of a wrapped node *)
(* is given with the outcome of the node function, [raised, result]; what  *)
(* happens during the call is the list of its events, the call of the node *)
(* function and the calls of the callback, in their order.                 *)
(***************************************************************************)
\* time.time()
Clock == "now"

\* the call node_func(state), and the call _progress_callback(name, result)
NodeEvent(node_name) ==
    [event |-> "node_func", callback |-> None, node_name |-> node_name,
     result |-> None]
CallbackEvent(callback, node_name, result) ==
    [event |-> "callback", callback |-> callback, node_name |-> node_name,
     result |-> result]

\* the wrapper that track_progress(node_func) returns, called while the
\* globals are g, node_func raising or returning as outcome says: the
\* globals it leaves, the events, and whether it raised or what it returned
track_progress(node_name, outcome, g) ==
    LET started == IF g.start_time = None THEN Clock ELSE g.start_time
        counted == Put(g.node_counts, node_name,
                       Get(g.node_counts, node_name, 0) + 1)
        left == [g EXCEPT !.start_time = started, !.node_counts = counted]
    IN  IF outcome.raised
        THEN [g |-> left, events |-> <<NodeEvent(node_name)>>,
              raised |-> TRUE, returned |-> None]
        ELSE [g |-> left,
              events |-> IF g.progress_callback # None
                         THEN <<NodeEvent(node_name),
                                CallbackEvent(g.progress_callback, node_name,
                                              outcome.result)>>
                         ELSE <<NodeEvent(node_name)>>,
              raised |-> FALSE, returned |-> outcome.result]

\* set_progress_callback(callback): the globals it leaves
set_progress_callback(callback, g) ==
    [progress_callback |-> callback, start_time |-> None,
     node_counts |-> EmptyDict]

\* Variant of reset_progress_tracking with a plausible slip: it resets all
\* three globals, as its docstring says.
reset_progress_tracking_All(g) ==
    [progress_callback |-> None, start_time |-> None,
     node_counts |-> EmptyDict]

\* reset_progress_tracking(): the globals it leaves
reset_progress_tracking(g) ==
    [g EXCEPT !.start_time = None, !.node_counts = EmptyDict]

\* the nodes that __init__.py wraps in this source, the callbacks of the
\* callers and the results of a node
TrackedNodes == {"initialize_state", "brainstorm_story_concepts"}
Callbacks == {"report", "log"}
NodeResults == {"result1", "result2"}

NodeOutcomes ==
    {[raised |-> TRUE, result |-> None]}
        \cup {[raised |-> FALSE, result |-> r] : r \in NodeResults}

Globals ==
    [progress_callback |-> progress_callback, start_time |-> start_time,
     node_counts |-> node_counts]

\* before holds the globals at the call
NoProgressCall ==
    [called |-> FALSE, op |-> "", node_name |-> "", callback |-> None,
     outcome |-> [raised |-> FALSE, result |-> None],
     before |-> set_progress_callback(None, Globals),
     events |-> <<>>, raised |-> FALSE, returned |-> None]

exceptProgress ==
    <<revVars, ptVars, chVars, chapVars, weVars, ceVars, msgVars, mlVars, expVars>>

\* the graph calls a wrapped node
CallTrackedNode ==
    /\ Idle
    /\ \E node_name \in TrackedNodes, outcome \in NodeOutcomes :
        LET r == track_progress(node_name, outcome, Globals)
        IN  /\ Get(node_counts, node_name, 0) < MaxCalls
            /\ progress_callback' = r.g.progress_callback
            /\ start_time' = r.g.start_time
            /\ node_counts' = r.g.node_counts
            /\ pr_call' = [NoProgressCall EXCEPT
                             !.called = TRUE, !.op = "node",
                             !.node_name = node_name, !.outcome = outcome,
                             !.before = Globals, !.events = r.events,
                             !.raised = r.raised, !.returned = r.returned]
    /\ UNCHANGED exceptProgress

\* a caller registers a callback, or None
SetProgressCallback ==
    /\ Idle
    /\ \E callback \in Callbacks \cup {None} :
        LET g == set_progress_callback(callback, Globals)
        IN  /\ progress_callback' = g.progress_callback
            /\ start_time' = g.start_time
            /\ node_counts' = g.node_counts
            /\ pr_call' = [NoProgressCall EXCEPT
                             !.called = TRUE, !.op = "set",
                             !.callback = callback, !.before = Globals]
    /\ UNCHANGED exceptProgress

ResetProgressTracking ==
    /\ Idle
    /\ LET g == reset_progress_tracking(Globals)
       IN  /\ progress_callback' = g.progress_callback
           /\ start_time' = g.start_time
           /\ node_counts' = g.node_counts
           /\ pr_call' = [NoProgressCall EXCEPT
                            !.called = TRUE, !.op = "reset", !.before = Globals]
    /\ UNCHANGED exceptProgress

\* the call is over, whether it returned or raised
NextCallProgress ==
    /\ pr_call.called
    /\ pr_call' = NoProgressCall
    /\ UNCHANGED <<progress_callback, start_time, node_counts, exceptProgress>>

InitProgress ==
    /\ progress_callback = None
    /\ start_time = None
    /\ node_counts = EmptyDict
    /\ pr_call = NoProgressCall

InitListKey ==
    /\ list_value = PyList(<<>>)
    /\ ml_call = NoListCall

InitRevelationsKey ==
    /\ revelations = EmptyDict
    /\ rev_call = NoCall

InitPlotThreadsKey ==
    /\ plot_threads = EmptyDict
    /\ pt_heap = <<>>
    /\ pt_call = NoThreadCall

InitCharactersKey ==
    /\ characters = EmptyDict
    /\ ch_call = NoCharacterCall

InitChaptersKey ==
    /\ chapters = EmptyDict
    /\ chap_call = NoChapterCall

InitWorldElementsKey ==
    /\ world_elements = EmptyDict
    /\ we_heap = <<>>
    /\ we_call = NoWorldCall

InitCreativeElementsKey ==
    /\ creative_elements = EmptyDict
    /\ ce_call = NoCreativeCall

InitMessagesKey ==
    /\ messages = <<>>
    /\ msg_call = NoMessagesCall

Init ==
    /\ InitMemory
    /\ InitProgress
    /\ InitListKey
    /\ InitMessagesKey
    /\ InitRevelationsKey
    /\ InitPlotThreadsKey
    /\ InitCharactersKey
    /\ InitChaptersKey
    /\ InitWorldElementsKey
    /\ InitCreativeElementsKey

NextRevelations ==
    \/ MergeRevelations
    \/ NextNodeRevelations

NextPlotThreads ==
    \/ MergePlotThreads
    \/ NextNodePlotThreads

NextCharacters ==
    \/ MergeCharacters
    \/ NextNodeCharacters

NextMalformedCharacters ==
    \/ MergeMalformedCharacters
    \/ NextNodeCharacters

NextScenes ==
    \/ MergeSceneChapters
    \/ NextNodeChapters

NextDocument ==
    \/ MergeRevelationsOf(DocRevelationDeltas)
    \/ NextNodeRevelations
    \/ MergePlotThreadsOf(DocPlotThreadDeltas)
    \/ NextNodePlotThreads
    \/ MergeCharactersOf(DocCharacterDeltas)
    \/ NextNodeCharacters
    \/ MergeChaptersOf(DocChapterDeltas)
    \/ NextNodeChapters
    \/ MergeWorldElementsOf(DocWorldDeltas)
    \/ NextNodeWorldElements
    \/ MergeCreativeElementsOf(DocCreativeDeltas)
    \/ NextNodeCreativeElements

NextSeparators ==
    \/ MergeSeparatorThreads
    \/ NextNodePlotThreads

\* initialize_state run at any point of a story
NextRestart ==
    \/ MergeCharactersOf(DocCharacterDeltas)
    \/ NextNodeCharacters
    \/ MergeChaptersOf(DocChapterDeltas)
    \/ NextNodeChapters
    \/ MergeRevelationsOf(StoryRevelationDeltas)
    \/ NextNodeRevelations
    \/ InitializeState
    \/ NextNodeMessages

NextExposition ==
    \/ TrackKeyConcepts
    \/ UpdateConceptIntroductionStatus
    \/ CheckConceptIntroduction
    \/ NextCallExposition

NextProgress ==
    \/ CallTrackedNode
    \/ SetProgressCallback
    \/ ResetProgressTracking
    \/ NextCallProgress

NextWorldElements ==
    \/ MergeWorldFields
    \/ NextNodeWorldElements

NextLists ==
    \/ MergeLists
    \/ NextCallLists

NextMessages ==
    \/ AppendMessage
    \/ InitializeState
    \/ BrainstormStoryConcepts
    \/ NextNodeMessages

\* the runs in which the nodes update one key only
SpecRevelations == Init /\ [][NextRevelations]_vars

SpecPlotThreads == Init /\ [][NextPlotThreads]_vars

SpecCharacters == Init /\ [][NextCharacters]_vars

\* the runs of a node whose history entries hold underscores
SpecSeparators == Init /\ [][NextSeparators]_vars

\* the runs in which initialize_state runs again after other nodes
SpecRestart == Init /\ [][NextRestart]_vars

\* the runs of the callers of the key concepts tracker
SpecExposition == Init /\ [][NextExposition]_vars

\* the runs of the progress tracking API
SpecProgress == Init /\ [][NextProgress]_vars

\* the runs of the worldbuilding nodes
SpecWorldElements == Init /\ [][NextWorldElements]_vars

\* the runs of a caller of merge_lists
SpecLists == Init /\ [][NextLists]_vars

\* the runs of the nodes that write messages
SpecMessages == Init /\ [][NextMessages]_vars

\* the runs in which nodes return characters with a field of the wrong type
SpecMalformedCharacters == Init /\ [][NextMalformedCharacters]_vars

\* the runs in which nodes write and revise the scenes of a chapter
SpecScenes == Init /\ [][NextScenes]_vars

\* the runs in which the nodes update all the keys, one update at a time
SpecDocument == Init /\ [][NextDocument]_vars

\* the keys that have got a value or are being updated
Touched ==
    [revelations |-> ~InitRevelationsKey,
     plot_threads |-> ~InitPlotThreadsKey,
     characters |-> ~InitCharactersKey,
     chapters |-> ~InitChaptersKey,
     world_elements |-> ~InitWorldElementsKey,
     creative_elements |-> ~InitCreativeElementsKey]

\* no key but key has been touched: the nodes of the run write one key
OnlyKey(key) == \A k \in DOMAIN Touched : Touched[k] => k = key

MergeEntityRevelations ==
    OnlyKey("revelations") /\ MergeRevelationsOf(EntityRevelationDeltas)

MergeEntityPlotThreads ==
    OnlyKey("plot_threads") /\ MergePlotThreadsOf(EntityThreadDeltas)

MergeEntityCharacters ==
    OnlyKey("characters") /\ MergeCharactersOf(EntityCharacterDeltas)

MergeEntityChapters ==
    OnlyKey("chapters") /\ MergeChaptersOf(EntityChapterDeltas)

MergeEntityWorldElements ==
    OnlyKey("world_elements") /\ MergeWorldElementsOf(EntityWorldDeltas)

MergeEntityCreativeElements ==
    OnlyKey("creative_elements") /\ MergeCreativeElementsOf(EntityCreativeDeltas)

NextEntities ==
    \/ MergeEntityRevelations
    \/ NextNodeRevelations
    \/ MergeEntityPlotThreads
    \/ NextNodePlotThreads
    \/ MergeEntityCharacters
    \/ NextNodeCharacters
    \/ MergeEntityChapters
    \/ NextNodeChapters
    \/ MergeEntityWorldElements
    \/ NextNodeWorldElements
    \/ MergeEntityCreativeElements
    \/ NextNodeCreativeElements

\* the runs in which the nodes write the entities of one key, whichever it is
SpecEntities == Init /\ [][NextEntities]_vars

(***************************************************************************)
(* Properties of merge_revelations.                                        *)
(***************************************************************************)
IssuesOf(d) == Get(d, "continuity_issues", <<>>)
ReaderOf(d) == Get(d, "reader", <<>>)

\* the positions of the issues of list l recorded for chapter c
RecordsFor(l, c) == {i \in 1..Len(l) : l[i].after_chapter = c}

HasRecord(l, c) == RecordsFor(l, c) # {}

\* the record of list l for chapter c, when there is one
RecordFor(l, c) == l[CHOOSE i \in 1..Len(l) : l[i].after_chapter = c]

Completed(issue) == issue.resolution_status = "completed"

HasCompleted(l, c) == \E i \in RecordsFor(l, c) : Completed(l[i])

\* the last completed issue that list l holds for chapter c
LastCompleted(l, c) ==
    l[CHOOSE i \in RecordsFor(l, c) :
        /\ Completed(l[i])
        /\ \A j \in RecordsFor(l, c) : Completed(l[j]) => j <= i]

\* C1: starting from the empty revelations value, after any sequence of
\* merge_revelations calls the stored continuity_issues list holds at most
\* one record for each after_chapter value.
C1_SingleRecordPerChapter ==
    LET l == IssuesOf(revelations)
    IN  \A i, j \in 1..Len(l) :
            l[i].after_chapter = l[j].after_chapter => i = j

\* a merge whose delta repeats a chapter that the existing list already holds
C1_Witness ==
    /\ rev_call.called
    /\ \E c \in ChapterKeys :
        /\ HasRecord(IssuesOf(rev_call.existing), c)
        /\ Cardinality(RecordsFor(IssuesOf(rev_call.new), c)) >= 2
        /\ HasRecord(IssuesOf(revelations), c)
    /\ Len(IssuesOf(revelations)) = 2

\* C2: if the existing issue for chapter c is not completed and the delta
\* carries a completed issue for c, the merged record for c is completed.
C2_CompletedWins ==
    rev_call.called =>
        \A c \in ChapterKeys :
            (/\ HasRecord(IssuesOf(rev_call.existing), c)
             /\ ~HasCompleted(IssuesOf(rev_call.existing), c)
             /\ HasCompleted(IssuesOf(rev_call.new), c))
            => (/\ HasRecord(IssuesOf(revelations), c)
                /\ Completed(RecordFor(IssuesOf(revelations), c)))

\* an open existing issue for c, and a delta that lists a completed issue for
\* c followed by an open one
C2_Witness ==
    /\ rev_call.called
    /\ \E c \in ChapterKeys :
        LET old == IssuesOf(rev_call.existing)
            new == IssuesOf(rev_call.new)
        IN  /\ HasRecord(old, c)
            /\ ~HasCompleted(old, c)
            /\ Len(new) = 2
            /\ new[1].after_chapter = c /\ Completed(new[1])
            /\ new[2].after_chapter = c /\ ~Completed(new[2])
            /\ Completed(RecordFor(IssuesOf(revelations), c))

\* C3 as stated: if the existing list holds a completed record for chapter c,
\* the merged record for c is that existing record, for every delta.
C3_ExistingCompletedNeverReplaced ==
    rev_call.called =>
        \A c \in ChapterKeys :
            HasCompleted(IssuesOf(rev_call.existing), c)
            => (/\ HasRecord(IssuesOf(revelations), c)
                /\ RecordFor(IssuesOf(revelations), c)
                     = RecordFor(IssuesOf(rev_call.existing), c))

\* C3, amended: if the existing list holds a completed record for chapter c,
\* the merged record for c is the last completed issue the delta carries for
\* c, and the existing record when the delta carries no completed issue for
\* c; an issue that is not completed never replaces it.
C3_ExistingCompletedUnlessNewCompleted ==
    rev_call.called =>
        \A c \in ChapterKeys :
            HasCompleted(IssuesOf(rev_call.existing), c)
            => (/\ HasRecord(IssuesOf(revelations), c)
                /\ RecordFor(IssuesOf(revelations), c)
                     = IF HasCompleted(IssuesOf(rev_call.new), c)
                       THEN LastCompleted(IssuesOf(rev_call.new), c)
                       ELSE RecordFor(IssuesOf(rev_call.existing), c))

\* a completed existing record for c, and a delta with an open issue for c
\* only: the existing record is the merged one
C3_Witness ==
    /\ rev_call.called
    /\ \E c \in ChapterKeys :
        LET old == IssuesOf(rev_call.existing)
            new == IssuesOf(rev_call.new)
        IN  /\ HasCompleted(old, c)
            /\ HasRecord(new, c)
            /\ ~HasCompleted(new, c)
            /\ RecordFor(new, c).description # RecordFor(old, c).description
            /\ RecordFor(IssuesOf(revelations), c) = RecordFor(old, c)

\* C4: once the stored issue for chapter c is completed, every later merge
\* leaves a completed record for c in the state.
C4_CompletedIsStable ==
    [][\A c \in ChapterKeys :
          HasCompleted(IssuesOf(revelations), c)
          => HasCompleted(IssuesOf(revelations'), c)]_vars

\* a completed record for c has met a delta with an open issue for c
C4_Witness ==
    /\ rev_call.called
    /\ \E c \in ChapterKeys :
        /\ HasCompleted(IssuesOf(rev_call.existing), c)
        /\ \E i \in RecordsFor(IssuesOf(rev_call.new), c) :
               ~Completed(IssuesOf(rev_call.new)[i])
        /\ HasCompleted(IssuesOf(revelations), c)

\* C5: if the existing record for chapter c is not completed and the delta
\* holds exactly one issue for c, the merged record for c is the delta's
\* issue, whatever its resolution_status.
C5_NewWinsOverNotCompleted ==
    rev_call.called =>
        \A c \in ChapterKeys :
            (/\ HasRecord(IssuesOf(rev_call.existing), c)
             /\ ~HasCompleted(IssuesOf(rev_call.existing), c)
             /\ Cardinality(RecordsFor(IssuesOf(rev_call.new), c)) = 1)
            => (/\ HasRecord(IssuesOf(revelations), c)
                /\ RecordFor(IssuesOf(revelations), c)
                     = RecordFor(IssuesOf(rev_call.new), c))

\* the tie: both records are open and they differ
C5_Witness ==
    /\ rev_call.called
    /\ \E c \in ChapterKeys :
        LET old == IssuesOf(rev_call.existing)
            new == IssuesOf(rev_call.new)
        IN  /\ HasRecord(old, c)
            /\ ~HasCompleted(old, c)
            /\ Cardinality(RecordsFor(new, c)) = 1
            /\ ~HasCompleted(new, c)
            /\ RecordFor(new, c) # RecordFor(old, c)
            /\ RecordFor(IssuesOf(revelations), c) = RecordFor(new, c)

\* C6: for every merge_revelations call, also one whose delta carries a
\* continuity_issues key, the merged reader list is the existing list followed
\* by the delta's.
C6_ReaderAppended ==
    rev_call.called =>
        ReaderOf(revelations) = ReaderOf(rev_call.existing) \o ReaderOf(rev_call.new)

(***************************************************************************)
(* Properties of merge_plot_threads.                                       *)
(***************************************************************************)
\* C7: no reducer modifies the previous snapshot: after merge_plot_threads
\* returns, the value passed as existing, its thread records and their
\* development_history lists included, equals its value before the call.
C7_ExistingUnchanged ==
    (pt_call.called /\ ~pt_call.raised) =>
        Deref(pt_call.existing, pt_heap) = pt_call.before

\* C8: for an existing thread that has a status, merging a delta entry for
\* that thread that carries no status key completes without raising and
\* leaves the thread's status at its existing value.
C8_MissingStatusKeepsStatus ==
    pt_call.called =>
        \A i \in 1..Len(pt_call.new) :
            LET n == pt_call.new[i].name
            IN  (/\ Has(pt_call.before, n)
                 /\ Has(pt_call.before[n], "status")
                 /\ ~Has(pt_call.new[i].data, "status"))
                => (/\ ~pt_call.raised
                    /\ Deref(plot_threads, pt_heap)[n]["status"]
                         = pt_call.before[n]["status"])

\* the development_history of thread n in the threads value d
HistoryOf(d, n) == Get(d[n], "development_history", <<>>)

\* C16: re-applying an identical plot-thread delta does not duplicate
\* history: merging the delta of the last call once more into the value that
\* the call returned leaves every thread's development_history as it is,
\* both when the thread existed before the call and when the delta created
\* it.
C16_ReapplyAddsNothing ==
    (pt_call.called /\ ~pt_call.raised) =>
        LET again == merge_plot_threads(plot_threads, pt_call.new, pt_heap)
        IN  /\ ~again.raised
            /\ DOMAIN again.result = DOMAIN plot_threads
            /\ \A n \in DOMAIN plot_threads :
                HistoryOf(Deref(again.result, again.heap), n)
                    = HistoryOf(Deref(plot_threads, pt_heap), n)

\* the delta has added an entry to the history of a thread that existed
C16_Witness ==
    /\ pt_call.called /\ ~pt_call.raised
    /\ \E i \in 1..Len(pt_call.new) :
        LET n == pt_call.new[i].name
        IN  /\ Has(pt_call.before, n)
            /\ Len(HistoryOf(pt_call.before, n)) >= 1
            /\ Len(HistoryOf(Deref(plot_threads, pt_heap), n))
                 > Len(HistoryOf(pt_call.before, n))

\* no two entries of history h have the same (chapter, scene, development)
NoRepeatedTriple(h) == \A i, j \in 1..Len(h) : h[i] = h[j] => i = j

\* C17: merge_plot_threads appends a delta entry to an existing thread's
\* development_history only if no entry with the same triple is already in
\* it, so a history without two entries of the same triple before a merge
\* has none after it, also when the delta lists the same entry twice.
C17_NoRepeatedTriple ==
    (pt_call.called /\ ~pt_call.raised) =>
        \A i \in 1..Len(pt_call.new) :
            LET n == pt_call.new[i].name
            IN  (Has(pt_call.before, n)
                 /\ NoRepeatedTriple(HistoryOf(pt_call.before, n)))
                => NoRepeatedTriple(HistoryOf(Deref(plot_threads, pt_heap), n))

(***************************************************************************)
(* Properties of merge_characters.                                         *)
(***************************************************************************)
\* C9: after any sequence of merge_characters calls starting from an empty
\* characters map, every character's relationships field, when present, is a
\* map from character id to string, also for a character that a delta
\* introduces with relationships given as a list of pairs.
C9_RelationshipsIsMap ==
    \A id \in DOMAIN characters :
        HasValue(characters[id], "relationships")
        => characters[id]["relationships"].kind = "dict"

\* m is the map pair.character -> pair.relationship of the list of pairs
\* items, the last pair of a character giving its value
IsMapOfPairs(m, items) ==
    /\ DOMAIN m = {items[n].d["character"] : n \in 1..Len(items)}
    /\ \A n \in 1..Len(items) :
        (\A k \in 1..Len(items) :
            items[k].d["character"] = items[n].d["character"] => k <= n)
        => m[items[n].d["character"]] = items[n].d["relationship"]

\* the characters that the last call found in existing and in the delta
Updated ==
    IF ch_call.existing = NoneDict \/ ch_call.new = NoneDict THEN {}
    ELSE {id \in DOMAIN ch_call.existing \cap DOMAIN ch_call.new :
            ch_call.new[id] # NoneDict}

\* C10: merging a delta whose relationships is a list of {character,
\* relationship} pairs into an existing character that has no relationships
\* (field absent or null) yields the map pair.character -> pair.relationship;
\* [{character: "bob", relationship: "ally"}] yields {"bob": "ally"}.
C10_ListOfPairsBecomesMap ==
    ch_call.called =>
        \A id \in Updated :
            (/\ ~HasValue(ch_call.existing[id], "relationships")
             /\ HasValue(ch_call.new[id], "relationships")
             /\ ch_call.new[id]["relationships"].kind = "list")
            => (/\ Has(characters[id], "relationships")
                /\ characters[id]["relationships"].kind = "dict"
                /\ IsMapOfPairs(characters[id]["relationships"].map,
                                ch_call.new[id]["relationships"].list))

\* the list [{character: "bob", relationship: "ally"}] has met an existing
\* character without a relationships field
C10_Witness ==
    /\ ch_call.called
    /\ \E id \in Updated :
        /\ ~Has(ch_call.existing[id], "relationships")
        /\ Has(ch_call.new[id], "relationships")
        /\ ch_call.new[id]["relationships"] = PyList(<<Pair("bob", "ally")>>)
        /\ characters[id]["relationships"] = PyDict([bob |-> "ally"])


\* the characters named by the list of pairs items
PairCharacters(items) == {items[n].d["character"] : n \in 1..Len(items)}

\* C11: when the existing character already has a relationships map and the
\* delta supplies relationships as a list of {character, relationship} pairs,
\* the merged map contains every pair of the delta, plus the existing entries
\* whose key the delta does not mention.
C11_ListMergedIntoMap ==
    ch_call.called =>
        \A id \in Updated :
            (/\ HasValue(ch_call.existing[id], "relationships")
             /\ ch_call.existing[id]["relationships"].kind = "dict"
             /\ HasValue(ch_call.new[id], "relationships")
             /\ ch_call.new[id]["relationships"].kind = "list")
            => LET old == ch_call.existing[id]["relationships"].map
                   items == ch_call.new[id]["relationships"].list
                   merged == characters[id]["relationships"]
               IN  /\ merged.kind = "dict"
                   /\ DOMAIN merged.map = DOMAIN old \cup PairCharacters(items)
                   /\ IsMapOfPairs([c \in PairCharacters(items) |-> merged.map[c]],
                                   items)
                   /\ \A c \in DOMAIN old \ PairCharacters(items) :
                          merged.map[c] = old[c]


\* the field of character id after the last call is what it was before it,
\* or the empty value of its type
Degraded(id, field, empty) ==
    \/ /\ Has(characters[id], field) = Has(ch_call.existing[id], field)
       /\ Has(characters[id], field)
            => characters[id][field] = ch_call.existing[id][field]
    \/ Has(characters[id], field) /\ characters[id][field] = empty

\* C12: merge_characters never aborts on a malformed delta: when relationships
\* is a string, a number or a list of non-records, or a fact list is a string
\* or a map, the call returns without raising and the malformed field becomes
\* the empty value or stays as it was.
C12_MalformedNeverRaises ==
    ch_call.called =>
        /\ ~ch_call.raised
        /\ \A id \in Updated :
            /\ (/\ Has(ch_call.new[id], "known_facts")
                /\ ch_call.new[id]["known_facts"] \in MalformedFacts)
               => Degraded(id, "known_facts", PyList(<<>>))
            /\ (/\ Has(ch_call.new[id], "relationships")
                /\ ch_call.new[id]["relationships"] \in MalformedRelationships)
               => Degraded(id, "relationships", PyDict(EmptyDict))


(***************************************************************************)
(* Properties of merge_scenes and merge_chapters.                          *)
(***************************************************************************)
\* the scenes that the chapters value chs holds for chapter c
ScenesIn(chs, c) ==
    IF chs # NoneDict /\ Has(chs, c) /\ ScenesOf(chs[c]) # NoneDict
    THEN ScenesOf(chs[c])
    ELSE EmptyDict

\* the <<chapter, scene>> pairs that the last call found in existing and in
\* the delta
UpdatedScenes ==
    {p \in ChapterIds \X SceneIds :
        /\ Has(ScenesIn(chap_call.existing, p[1]), p[2])
        /\ Has(ScenesIn(chap_call.new, p[1]), p[2])}

\* the notes of a scene, none when the field is absent
NotesOf(scene) == Get(scene, "reflection_notes", PyList(<<>>))

\* C18: in merge_scenes, a delta whose reflection_notes is exactly the list
\* ["Scene has been revised"] replaces the existing scene's notes, however
\* many they are, by that one note; any other non-empty reflection_notes is
\* appended after the existing notes.
C18_RevisedNoteReplaces ==
    (chap_call.called /\ ~chap_call.raised) =>
        \A p \in UpdatedScenes :
            LET old == ScenesIn(chap_call.existing, p[1])[p[2]]
                data == ScenesIn(chap_call.new, p[1])[p[2]]
                merged == ScenesIn(chapters, p[1])[p[2]]
            IN  (/\ NotesOf(old).kind = "list"
                 /\ Has(data, "reflection_notes")
                 /\ data["reflection_notes"].kind = "list"
                 /\ data["reflection_notes"].list # <<>>)
                => IF data["reflection_notes"].list = <<Revised>>
                   THEN merged["reflection_notes"] = PyList(<<Revised>>)
                   ELSE merged["reflection_notes"]
                          = PyList(NotesOf(old).list
                                     \o data["reflection_notes"].list)

\* a scene with two prior notes has met the revision note
C18_Witness ==
    /\ chap_call.called
    /\ \E p \in UpdatedScenes :
        /\ Len(NotesOf(ScenesIn(chap_call.existing, p[1])[p[2]]).list) >= 2
        /\ NotesOf(ScenesIn(chap_call.new, p[1])[p[2]]) = PyList(<<Revised>>)
        /\ Len(ScenesIn(chapters, p[1])[p[2]]["reflection_notes"].list) = 1

\* the deltas {chapter: {scenes: {scene: {content, reflection_notes:
\* ["Scene has been revised"]}}}} with a non-empty content
RevisionData == {[content |-> PyStr(x), reflection_notes |-> PyList(<<Revised>>)] :
                    x \in Contents \ {""}}

\* C19: merge_chapters merges nested scenes through merge_scenes: for a
\* chapter and a scene present on both sides, a delta that gives the scene a
\* content and the revision note yields the scene with that content and that
\* one note, and leaves the chapter's other scenes and fields unchanged;
\* {content: "A", reflection_notes: ["too short"]} becomes {content:
\* "A expanded", reflection_notes: ["Scene has been revised"]}.
C19_NestedSceneMerge ==
    chap_call.called =>
        \A p \in UpdatedScenes : \A data \in RevisionData :
            chap_call.new = SceneDelta(p[1], p[2], data)
            => LET before == chap_call.existing[p[1]]
                   after == chapters[p[1]]
                   old == before["scenes"][p[2]]
               IN  /\ ~chap_call.raised
                   /\ DOMAIN after = DOMAIN before
                   /\ \A f \in DOMAIN before \ {"scenes"} : after[f] = before[f]
                   /\ DOMAIN after["scenes"] = DOMAIN before["scenes"]
                   /\ \A sc \in DOMAIN before["scenes"] \ {p[2]} :
                          after["scenes"][sc] = before["scenes"][sc]
                   /\ after["scenes"][p[2]]
                        = [f \in DOMAIN old \cup DOMAIN data |->
                              IF f \in DOMAIN data THEN data[f] ELSE old[f]]

\* the scenario: scene 1 of chapter 1 is {content: "A", reflection_notes:
\* ["too short"]}, the chapter has a title and a second scene
C19_Witness ==
    /\ chap_call.called
    /\ Has(chap_call.existing, "1")
    /\ chap_call.existing["1"] = TwoSceneChapter
    /\ chap_call.new
         = SceneDelta("1", "1", [content |-> PyStr("A expanded"),
                                 reflection_notes |-> PyList(<<Revised>>)])
    /\ chapters["1"]["scenes"]["1"]
         = [content |-> PyStr("A expanded"),
            reflection_notes |-> PyList(<<Revised>>)]
    /\ chapters["1"]["scenes"]["2"] = [content |-> PyStr("B")]
    /\ chapters["1"]["title"] = PyStr("T")

\* the delta gives field f of the scene a non-empty value
Supplies(data, f) == Has(data, f) /\ PyTruthy(data[f])

\* C20: scene content, and likewise structured_reflection, follows
\* last-non-empty-writer-wins over any sequence of merges: every merge leaves
\* the field at the delta's value when that is non-empty, and as it was when
\* the delta's value is empty or absent; a scene that the merge creates has
\* the delta's fields.
C20_LastNonEmptyWriterWins ==
    [][(chap_call'.called /\ ~chap_call'.raised) =>
        \A c \in ChapterIds : \A sc \in DOMAIN ScenesIn(chapters', c) :
            \A f \in {"content", "structured_reflection"} :
                LET after == ScenesIn(chapters', c)[sc]
                    given == ScenesIn(chap_call'.new, c)
                IN  IF Has(given, sc) /\ Supplies(given[sc], f)
                    THEN Has(after, f) /\ after[f] = given[sc][f]
                    ELSE IF Has(ScenesIn(chapters, c), sc)
                    THEN LET before == ScenesIn(chapters, c)[sc]
                         IN  /\ Has(after, f) = Has(before, f)
                             /\ Has(after, f) => after[f] = before[f]
                    ELSE ~(Has(after, f) /\ PyTruthy(after[f]))]_vars

\* a delta with an empty content has met a scene whose content an earlier
\* delta had set to "A expanded"
C20_Witness ==
    /\ chap_call.called
    /\ \E p \in UpdatedScenes :
        /\ Has(ScenesIn(chap_call.existing, p[1])[p[2]], "content")
        /\ ScenesIn(chap_call.existing, p[1])[p[2]]["content"]
             = PyStr("A expanded")
        /\ Has(ScenesIn(chap_call.new, p[1])[p[2]], "content")
        /\ ScenesIn(chap_call.new, p[1])[p[2]]["content"] = PyStr("")
        /\ ScenesIn(chapters, p[1])[p[2]]["content"] = PyStr("A expanded")


(***************************************************************************)
(* Properties of all the reducers.                                         *)
(***************************************************************************)
\* C13: every collection reducer is null-tolerant: a null delta returns
\* existing unchanged and a null existing behaves as the empty map (the
\* result equals the delta), in both cases without raising, for
\* merge_characters, merge_chapters, merge_scenes, merge_revelations,
\* merge_plot_threads and merge_world_elements; a null reflection_notes in a
\* scene delta is a no-op.
C13_NullTolerant ==
    /\ ch_call.called =>
        /\ ch_call.new = NoneDict
            => ~ch_call.raised /\ characters = ch_call.existing
        /\ ~merge_characters_raises(NoneDict, ch_call.new)
        /\ ch_call.new # NoneDict
            => merge_characters(NoneDict, ch_call.new) = ch_call.new
    /\ chap_call.called =>
        /\ chap_call.new = NoneDict
            => ~chap_call.raised /\ chapters = chap_call.existing
        /\ chap_call.new # NoneDict
            => ~merge_chapters_raises(NoneDict, chap_call.new)
        /\ \A p \in UpdatedScenes :
            LET old == ScenesIn(chap_call.existing, p[1])[p[2]]
                data == ScenesIn(chap_call.new, p[1])[p[2]]
            IN  (Has(data, "reflection_notes")
                 /\ data["reflection_notes"] = PyNone)
                => /\ ~chap_call.raised
                   /\ NotesOf(ScenesIn(chapters, p[1])[p[2]]) = NotesOf(old)
                   /\ ~merge_scenes_raises(NoneDict, ScenesIn(chap_call.new, p[1]))
    /\ rev_call.called =>
        /\ rev_call.new = NoneDict
            => ~rev_call.raised /\ revelations = rev_call.existing
        /\ rev_call.new # NoneDict
            => ~merge_revelations_raises(NoneDict, rev_call.new)
    /\ (pt_call.called /\ pt_call.new = NoneThreads)
        => ~pt_call.raised /\ Deref(plot_threads, pt_heap) = pt_call.before
    /\ (we_call.called /\ we_call.new = NoneDict)
        => /\ ~we_call.raised
           /\ DerefWorld(world_elements, we_heap) = we_call.before

\* C14: merge(D, {}) == D for every reducer and every value D: merging an
\* empty delta into the present value of a key returns, without raising, a
\* value equal to it on every key and field, for merge_characters,
\* merge_chapters, merge_scenes, merge_revelations, merge_plot_threads,
\* merge_world_elements and merge_creative_elements.
C14_EmptyDeltaIsIdentity ==
    /\ ~merge_characters_raises(characters, EmptyDict)
    /\ merge_characters(characters, EmptyDict) = characters
    /\ ~merge_chapters_raises(chapters, EmptyDict)
    /\ merge_chapters(chapters, EmptyDict) = chapters
    /\ \A c \in DOMAIN chapters :
        LET scenes == ScenesIn(chapters, c)
        IN  /\ ~merge_scenes_raises(scenes, EmptyDict)
            /\ merge_scenes(scenes, EmptyDict) = scenes
    /\ ~merge_revelations_raises(revelations, EmptyDict)
    /\ merge_revelations(revelations, EmptyDict) = revelations
    /\ LET m == merge_plot_threads(plot_threads, <<>>, pt_heap)
       IN  ~m.raised /\ m.result = plot_threads /\ m.heap = pt_heap
    /\ LET m == merge_world_elements(world_elements, EmptyDict, we_heap)
       IN  ~m.raised /\ m.result = world_elements /\ m.heap = we_heap
    /\ ~merge_creative_elements_raises(creative_elements, EmptyDict)
    /\ merge_creative_elements(creative_elements, EmptyDict) = creative_elements

\* every key holds entities, chapter 1 holds a scene, and the last update was
\* an empty chapters delta
C14_Witness ==
    /\ DOMAIN characters # {} /\ DOMAIN revelations # {}
    /\ DOMAIN plot_threads # {} /\ DOMAIN world_elements # {}
    /\ DOMAIN creative_elements # {}
    /\ ScenesIn(chapters, "1") # EmptyDict
    /\ chap_call.called /\ ~chap_call.raised
    /\ chap_call.new = EmptyDict
    /\ chapters = chap_call.existing

\* list l is a prefix of list m
IsPrefix(l, m) == Len(l) <= Len(m) /\ SubSeq(m, 1, Len(l)) = l

\* the list that field f of dict d holds, the empty list when it holds none
ListOf(d, f) ==
    IF Has(d, f) /\ d[f].kind = "list" THEN d[f].list ELSE <<>>

\* C15: across any sequence of merges, a character's list fields (evolution,
\* known_facts, secret_facts, revealed_facts) and a chapter's
\* reflection_notes never get shorter: the value before a merge is a prefix
\* of the value after it, whatever list the delta supplies.
C15_AppendOnly ==
    [][/\ \A id \in DOMAIN characters :
            /\ id \in DOMAIN characters'
            /\ \A n \in 1..Len(ListFields) :
                IsPrefix(ListOf(characters[id], ListFields[n]),
                         ListOf(characters'[id], ListFields[n]))
       /\ \A c \in DOMAIN chapters :
            /\ c \in DOMAIN chapters'
            /\ IsPrefix(ListOf(chapters[c], "reflection_notes"),
                        ListOf(chapters'[c], "reflection_notes"))]_vars

\* a fact has been appended to a character's non-empty list of facts, in a
\* document whose chapter 1 holds notes
C15_Witness ==
    /\ ch_call.called /\ ~ch_call.raised
    /\ \E id \in Updated :
        /\ ListOf(ch_call.existing[id], "known_facts") # <<>>
        /\ ListOf(ch_call.new[id], "known_facts") # <<>>
        /\ ListOf(characters[id], "known_facts")
             = ListOf(ch_call.existing[id], "known_facts")
                 \o ListOf(ch_call.new[id], "known_facts")
    /\ Has(chapters, "1")
    /\ Len(ListOf(chapters["1"], "reflection_notes")) >= 2

(***************************************************************************)
(* Properties of the entities of a key.                                    *)
(***************************************************************************)
\* every key of existing is a key of result, with the value it has in
\* existing when the delta has no such key
Carried(existing, delta_keys, result) ==
    \A k \in DOMAIN existing :
        /\ Has(result, k)
        /\ k \notin delta_keys => result[k] = existing[k]

\* the names of the threads of a plot threads delta
ThreadsOf(new) == {new[i].name : i \in 1..Len(new)}

\* the chapters whose scenes the last merge_chapters call passed to
\* merge_scenes
MergedScenes ==
    {c \in DOMAIN chap_call.existing \cap DOMAIN chap_call.new :
        Has(chap_call.new[c], "scenes")}

\* the frame of the last call of the reducers but merge_characters
FrameOfOthers ==
    /\ chap_call.called =>
        /\ Carried(chap_call.existing, DOMAIN chap_call.new, chapters)
        /\ DOMAIN chap_call.new \subseteq DOMAIN chapters
        /\ \A c \in MergedScenes :
            /\ Carried(ScenesIn(chap_call.existing, c),
                       DOMAIN chap_call.new[c]["scenes"],
                       ScenesIn(chapters, c))
            /\ DOMAIN chap_call.new[c]["scenes"] \subseteq DOMAIN ScenesIn(chapters, c)
    /\ pt_call.called =>
        /\ Carried(pt_call.before, ThreadsOf(pt_call.new),
                   Deref(plot_threads, pt_heap))
        /\ ThreadsOf(pt_call.new) \subseteq DOMAIN plot_threads
    /\ we_call.called =>
        /\ Carried(we_call.before, DOMAIN we_call.new,
                   DerefWorld(world_elements, we_heap))
        /\ DOMAIN we_call.new \subseteq DOMAIN world_elements
    /\ rev_call.called =>
        /\ Carried(rev_call.existing, DOMAIN rev_call.new, revelations)
        /\ DOMAIN rev_call.new \subseteq DOMAIN revelations
    /\ ce_call.called =>
        /\ Carried(ce_call.existing, DOMAIN ce_call.new, creative_elements)
        /\ DOMAIN ce_call.new \subseteq DOMAIN creative_elements

\* C21 as stated: entities are never removed and untouched entities are
\* unchanged: for every reducer (characters, chapters, scenes, plot_threads,
\* world_elements, revelations, creative_elements) and every delta, each key
\* of existing is a key of the result, a key absent from the delta maps to
\* the value it has in existing, and a key present only in the delta is
\* inserted.
C21_FrameAsStated ==
    /\ FrameOfOthers
    /\ ch_call.called =>
        /\ Carried(ch_call.existing, DOMAIN ch_call.new, characters)
        /\ DOMAIN ch_call.new \subseteq DOMAIN characters

\* the character ids that a delta gives with a value that is not None
GivenCharacters(new) == {id \in DOMAIN new : new[id] # NoneDict}

\* C21 amended: for every reducer and every delta, each key of existing is a
\* key of the result, a key absent from the delta maps to the value it has
\* in existing, and a key present only in the delta is inserted, except that
\* merge_characters treats a character id whose delta value is null as
\* absent from the delta: it is not inserted, and an existing character of
\* that id is unchanged.
C21_FrameExceptNullCharacter ==
    /\ FrameOfOthers
    /\ ch_call.called =>
        /\ Carried(ch_call.existing, GivenCharacters(ch_call.new), characters)
        /\ DOMAIN characters
             = DOMAIN ch_call.existing \cup GivenCharacters(ch_call.new)

\* a key carried over and a key inserted: the last call found alice
\* with facts, was given bob only, and returned both
C21_Witness ==
    /\ ch_call.called
    /\ DOMAIN ch_call.existing = {"alice"}
    /\ ListOf(ch_call.existing["alice"], "known_facts") # <<>>
    /\ DOMAIN ch_call.new = {"bob"}
    /\ ch_call.new["bob"] # NoneDict
    /\ DOMAIN characters = {"alice", "bob"}
    /\ characters["alice"] = ch_call.existing["alice"]

\* the part of dict delta d for key k
Part(d, k) == [x \in {k} |-> d[x]]

\* the plot threads value that merging delta a, then delta b, gives
ThreadsAfter(a, b) ==
    LET m == merge_plot_threads(plot_threads, a, pt_heap)
        n == merge_plot_threads(m.result, b, m.heap)
    IN  Deref(n.result, n.heap)

\* the world elements value that merging delta a, then delta b, gives
WorldAfter(a, b) ==
    LET m == merge_world_elements(world_elements, a, we_heap)
        n == merge_world_elements(m.result, b, m.heap)
    IN  DerefWorld(n.result, n.heap)

\* the deltas of ds that give two entities
TwoKeys(ds) == {d \in ds : Cardinality(DOMAIN d) = 2}

\* C22: entity keys are merged independently: for merge_characters,
\* merge_chapters, merge_plot_threads and merge_world_elements, merging a
\* delta with keys {a, b} into the present value gives the same result as
\* merging its a-part and its b-part as two successive deltas, in either
\* order.
C22_KeysMergedIndependently ==
    /\ \A d \in TwoKeys(EntityCharacterDeltas) :
        \A k \in DOMAIN d :
            LET rest == CHOOSE x \in DOMAIN d : x # k
            IN  merge_characters(merge_characters(characters, Part(d, k)),
                                 Part(d, rest))
                  = merge_characters(characters, d)
    /\ \A d \in TwoKeys(EntityChapterDeltas) :
        \A k \in DOMAIN d :
            LET rest == CHOOSE x \in DOMAIN d : x # k
            IN  merge_chapters(merge_chapters(chapters, Part(d, k)),
                               Part(d, rest))
                  = merge_chapters(chapters, d)
    /\ \A d \in TwoKeys(EntityThreadDeltas) :
        /\ ThreadsAfter(<<d[1]>>, <<d[2]>>) = ThreadsAfter(d, <<>>)
        /\ ThreadsAfter(<<d[2]>>, <<d[1]>>) = ThreadsAfter(d, <<>>)
    /\ \A d \in TwoKeys(EntityWorldDeltas) :
        \A k \in DOMAIN d :
            LET rest == CHOOSE x \in DOMAIN d : x # k
            IN  WorldAfter(Part(d, k), Part(d, rest)) = WorldAfter(d, EmptyDict)

\* a delta that gives facts of two characters has been merged into two
\* characters that have facts
C22_Witness ==
    /\ ch_call.called
    /\ DOMAIN ch_call.new = {"alice", "bob"}
    /\ DOMAIN ch_call.existing = {"alice", "bob"}
    /\ \A id \in {"alice", "bob"} :
        /\ ListOf(ch_call.existing[id], "known_facts") # <<>>
        /\ ch_call.new[id] # NoneDict
        /\ ListOf(ch_call.new[id], "known_facts") # <<>>
        /\ ListOf(characters[id], "known_facts")
             = ListOf(ch_call.existing[id], "known_facts")
                 \o ListOf(ch_call.new[id], "known_facts")

(***************************************************************************)
(* Properties of the append-style fields: a character's fact lists and a   *)
(* chapter's reflection_notes.                                             *)
(***************************************************************************)
\* the deltas of ds that give one entity
OneKey(ds) == {d \in ds : Cardinality(DOMAIN d) = 1}

\* the append-style fields of characters value a and of characters value b
\* are related by Same
CharacterListsAre(Same(_, _), a, b) ==
    /\ DOMAIN a = DOMAIN b
    /\ \A id \in DOMAIN a :
        \A n \in 1..Len(ListFields) :
            Same(ListOf(a[id], ListFields[n]), ListOf(b[id], ListFields[n]))

\* the append-style field of chapters value a and of chapters value b are
\* related by Same
ChapterNotesAre(Same(_, _), a, b) ==
    /\ DOMAIN a = DOMAIN b
    /\ \A c \in DOMAIN a :
        Same(ListOf(a[c], "reflection_notes"), ListOf(b[c], "reflection_notes"))

EqualLists(l, m) == l = m

\* how many times list l holds x
Occurrences(l, x) == Cardinality({i \in 1..Len(l) : l[i] = x})

\* lists l and m hold the same items, each as many times
SameItems(l, m) ==
    /\ Len(l) = Len(m)
    /\ \A i \in 1..Len(l) : Occurrences(l, l[i]) = Occurrences(m, l[i])

\* merging delta a, then delta b, and merging b, then a, give append-style
\* fields related by Same
CommuteUpTo(Same(_, _)) ==
    /\ \A a \in OneKey(EntityCharacterDeltas) :
        \A b \in OneKey(EntityCharacterDeltas) :
            CharacterListsAre(Same,
                merge_characters(merge_characters(characters, a), b),
                merge_characters(merge_characters(characters, b), a))
    /\ \A a \in OneKey(EntityChapterDeltas) :
        \A b \in OneKey(EntityChapterDeltas) :
            ChapterNotesAre(Same,
                merge_chapters(merge_chapters(chapters, a), b),
                merge_chapters(merge_chapters(chapters, b), a))

\* C23 as stated: for append-style fields (a character's fact lists, a
\* chapter's reflection_notes), merging two deltas a and b is commutative:
\* merge(merge(D, a), b) and merge(merge(D, b), a) give the same value for
\* every such field.
C23_AppendCommutes == CommuteUpTo(EqualLists)

\* C23 amended: for append-style fields, merge(merge(D, a), b) and
\* merge(merge(D, b), a) give lists with the same items, each as many times,
\* for every such field; the items of a and of b follow those of D in the
\* order in which the two deltas were merged.
C23_AppendCommutesUpToOrder == CommuteUpTo(SameItems)

\* facts f2 have been merged after facts f1
C23_Witness ==
    /\ ch_call.called
    /\ Has(ch_call.existing, "alice") /\ Has(ch_call.new, "alice")
    /\ ListOf(ch_call.existing["alice"], "known_facts") = <<"f1">>
    /\ ch_call.new["alice"] = OneField("known_facts", PyList(<<"f2">>))
    /\ ListOf(characters["alice"], "known_facts") = <<"f1", "f2">>

\* the deltas of ds that give one entity of those that value D holds
OverEntitiesOf(D, ds) == {d \in OneKey(ds) : DOMAIN d \subseteq DOMAIN D}

\* C24: for append-style fields, merging is associative: for every D and
\* deltas a, b over entities present in D, merge(merge(D, a), b) equals
\* merge(D, merge(a, b)) on a character's fact lists and a chapter's
\* reflection_notes, where merge(a, b) is the same reducer applied to the
\* two deltas (which therefore returns a value).
C24_AppendAssociates ==
    /\ \A a \in OverEntitiesOf(characters, EntityCharacterDeltas) :
        \A b \in OverEntitiesOf(characters, EntityCharacterDeltas) :
            /\ ~merge_characters_raises(a, b)
            /\ CharacterListsAre(EqualLists,
                    merge_characters(merge_characters(characters, a), b),
                    merge_characters(characters, merge_characters(a, b)))
    /\ \A a \in OverEntitiesOf(chapters, EntityChapterDeltas) :
        \A b \in OverEntitiesOf(chapters, EntityChapterDeltas) :
            /\ ~merge_chapters_raises(a, b)
            /\ ChapterNotesAre(EqualLists,
                    merge_chapters(merge_chapters(chapters, a), b),
                    merge_chapters(chapters, merge_chapters(a, b)))

(***************************************************************************)
(* Properties of the messages key.                                         *)
(***************************************************************************)
\* the last update of messages was that of a node that resets the list
ResetCalled ==
    /\ msg_call.called
    /\ msg_call.node \in {"initialize_state", "brainstorm_story_concepts"}

\* C25: within one delta, message removals are applied before appends: when
\* the delta of initialize_state or brainstorm_story_concepts (a
\* RemoveMessage for every message id of the list, followed by one new
\* AIMessage) is merged by the messages reducer, the list holds exactly that
\* one new message; every prior message is gone and the new one is not
\* removed.
C25_ResetLeavesNewMessage ==
    ResetCalled =>
        LET new_msg == msg_call.new[Len(msg_call.new)]
        IN  /\ Len(msg_call.new) = Len(msg_call.existing) + 1
            /\ Len(messages) = 1
            /\ messages[1].type = "ai"
            /\ messages[1].content = new_msg.content
            /\ messages[1].id \notin IdsOf(msg_call.existing)

\* brainstorm_story_concepts has reset a list of two messages, the second
\* being that of initialize_state
C25_Witness ==
    /\ ResetCalled
    /\ msg_call.node = "brainstorm_story_concepts"
    /\ Len(msg_call.existing) = 2
    /\ msg_call.existing[1].content = ResponseMessage
    /\ messages = <<[type |-> "ai", id |-> messages[1].id,
                     content |-> BrainstormMessage]>>

(***************************************************************************)
(* Issues without after_chapter.                                           *)
(***************************************************************************)
HasChapter(issue) == issue.after_chapter # NoChapter

\* dict d with the issues that have an after_chapter only
WithoutUnkeyed(d) ==
    IF Has(d, "continuity_issues")
    THEN Put(d, "continuity_issues", SelectSeq(d["continuity_issues"], HasChapter))
    ELSE d

\* the last call's existing with an issue without after_chapter put before
\* or after its issues
ExistingWithUnkeyed ==
    LET old == IssuesOf(rev_call.existing)
        issue == Issue(NoChapter, "completed", "d2")
    IN  {Put(rev_call.existing, "continuity_issues", <<issue>> \o old),
         Put(rev_call.existing, "continuity_issues", Append(old, issue))}

\* C26: an issue that lacks an after_chapter value never appears in the
\* continuity_issues produced by a merge whose delta carries
\* continuity_issues: such issues are dropped without an error, from the
\* delta and from the existing list alike, and the records of the chapters
\* that have a key are what the merge gives without these issues.
C26_UnkeyedIssuesDropped ==
    (rev_call.called /\ Has(rev_call.new, "continuity_issues")) =>
        /\ ~rev_call.raised
        /\ \A i \in 1..Len(IssuesOf(revelations)) :
            HasChapter(IssuesOf(revelations)[i])
        /\ IssuesOf(revelations)
             = IssuesOf(merge_revelations(rev_call.existing,
                                          WithoutUnkeyed(rev_call.new)))
        /\ \A existing \in ExistingWithUnkeyed :
            /\ ~merge_revelations_raises(existing, rev_call.new)
            /\ IssuesOf(merge_revelations(existing, rev_call.new))
                 = IssuesOf(revelations)

\* a delta with an issue of chapter 1 and an issue without after_chapter has
\* been merged into a list that holds an issue of chapter 2
C26_Witness ==
    /\ rev_call.called /\ Has(rev_call.new, "continuity_issues")
    /\ Len(rev_call.new["continuity_issues"]) = 2
    /\ ~HasChapter(rev_call.new["continuity_issues"][1])
    /\ rev_call.new["continuity_issues"][2].after_chapter = "1"
    /\ Len(IssuesOf(rev_call.existing)) = 1
    /\ IssuesOf(rev_call.existing)[1].after_chapter = "2"
    /\ IssuesOf(revelations)
         = <<IssuesOf(rev_call.existing)[1], rev_call.new["continuity_issues"][2]>>

(***************************************************************************)
(* Properties of merge_lists.                                              *)
(***************************************************************************)
\* C27: merge_lists implements appendList with null tolerance: for all lists
\* or nulls existing and new, the result equals (existing or empty) followed
\* by (new or empty) in order, and when new is null or empty the result is
\* existing unchanged, including when existing is the empty list and new is
\* null.
C27_AppendListNullTolerant ==
    ml_call.called =>
        /\ list_value = PyList(OrEmpty(ml_call.existing) \o OrEmpty(ml_call.new))
        /\ OrEmpty(ml_call.new) = <<>> => list_value = ml_call.existing

(***************************************************************************)
(* last_chapter and last_scene of a plot thread.                           *)
(***************************************************************************)
\* last_chapter and last_scene of a thread, None for a key that is absent
LastOf(thread) ==
    <<Get(thread, "last_chapter", None), Get(thread, "last_scene", None)>>

\* the delta entry supplies last_chapter and last_scene, both non-empty
SuppliesBoth(thread_data) ==
    Truthy(LastOf(thread_data)[1]) /\ Truthy(LastOf(thread_data)[2])

\* C28: in merge_plot_threads, an existing thread's last_chapter and
\* last_scene change only when the delta entry supplies both with non-empty
\* values, and then both take the delta's values; if the delta supplies only
\* one of them (or neither), both keep their existing values.
C28_LastChangesOnlyInPairs ==
    pt_call.called =>
        \A i \in 1..Len(pt_call.new) :
            LET n == pt_call.new[i].name
                data == pt_call.new[i].data
            IN  Has(pt_call.before, n) =>
                    LastOf(Deref(plot_threads, pt_heap)[n])
                        = IF SuppliesBoth(data) THEN LastOf(data)
                          ELSE LastOf(pt_call.before[n])

(***************************************************************************)
(* Properties of merge_world_elements.                                     *)
(***************************************************************************)
\* the <<category, key>> pairs that the last call found in existing and in
\* the delta
UpdatedFields ==
    IF we_call.new = NoneDict THEN {}
    ELSE {p \in (DOMAIN we_call.before \cap DOMAIN we_call.new) \X {"places", "climate"} :
            /\ we_call.before[p[1]] # NoneDict /\ we_call.new[p[1]] # NoneDict
            /\ Has(we_call.before[p[1]], p[2])
            /\ Has(we_call.new[p[1]], p[2])}

\* the values of such a field before the call, in the delta and now
FieldBefore(p) == we_call.before[p[1]][p[2]]
FieldGiven(p) == we_call.new[p[1]][p[2]]
FieldNow(p) == DerefWorld(world_elements, we_heap)[p[1]][p[2]]

\* no two items of list l have the same str()
NoEqualStr(l) == \A i, j \in 1..Len(l) : StrOf(l[i]) = StrOf(l[j]) => i = j

\* C29: world-element list fields are dedup-appended by string equality:
\* when a category's list field holds no two items with equal string form
\* before a merge_world_elements call, it holds none after it, for every
\* delta list, including a delta list that repeats an item not yet in the
\* existing list; existing items keep their order and new items follow them.
C29_ListsStayDistinct ==
    we_call.called =>
        \A p \in UpdatedFields :
            (/\ FieldBefore(p).kind = "list"
             /\ FieldGiven(p).kind = "list"
             /\ NoEqualStr(FieldBefore(p).list))
            => /\ ~we_call.raised
               /\ FieldNow(p).kind = "list"
               /\ IsPrefix(FieldBefore(p).list, FieldNow(p).list)
               /\ NoEqualStr(FieldNow(p).list)

C31_EarlierValuesKept ==
    [][/\ \A obj \in 1..Len(pt_heap) : pt_heap'[obj] = pt_heap[obj]
       /\ Deref(plot_threads, pt_heap') = Deref(plot_threads, pt_heap)
       /\ \A obj \in 1..Len(we_heap) : we_heap'[obj] = we_heap[obj]
       /\ DerefWorld(world_elements, we_heap')
            = DerefWorld(world_elements, we_heap)]_vars

\* the entries of a history as a set of (chapter, scene, development) triples
TriplesOf(history) == {history[i] : i \in 1..Len(history)}

\* C32: merge_plot_threads never loses a genuinely new history entry: a
\* delta entry whose (chapter, scene, development) triple differs from the
\* triple of every entry already in the thread's development_history is in
\* the history after the merge, also when the fields hold the underscore
\* that separates them in the key.
C32_NewEntryAppended ==
    pt_call.called =>
        \A i \in 1..Len(pt_call.new) :
            LET n == pt_call.new[i].name
                given == HistoryOf([t \in {n} |-> pt_call.new[i].data], n)
            IN  Has(pt_call.before, n) =>
                    \A e \in TriplesOf(given) \ TriplesOf(HistoryOf(pt_call.before, n)) :
                        /\ ~pt_call.raised
                        /\ e \in TriplesOf(HistoryOf(Deref(plot_threads, pt_heap), n))

(***************************************************************************)
(* Properties of merge_characters for a delta entry that is None.          *)
(***************************************************************************)
\* C33: in merge_characters a delta entry whose value is null is skipped
\* entirely: whatever `existing` is (the present value of the key, or None
\* for a key without a value), a call that returns gives an existing
\* character of that id unchanged and does not insert an id not yet known,
\* so the result maps no character id to null unless `existing` did.
C33_NullEntrySkipped ==
    \A existing \in {characters, NoneDict} :
        \A new \in EntityCharacterDeltas :
            ~merge_characters_raises(existing, new) =>
                LET result == merge_characters(existing, new)
                    known == IF existing = NoneDict THEN {} ELSE DOMAIN existing
                IN  \A id \in DOMAIN new :
                        new[id] = NoneDict =>
                            IF id \in known
                            THEN Has(result, id) /\ result[id] = existing[id]
                            ELSE ~Has(result, id)

(***************************************************************************)
(* Properties of the delta of initialize_state.                            *)
(***************************************************************************)
\* the step in which the engine merges what initialize_state returned
InitializeStateMerged ==
    /\ ~msg_call.called
    /\ msg_call'.called
    /\ msg_call'.node = "initialize_state"

\* C34 as stated: merging the delta returned by initialize_state into a
\* state that already holds chapters, characters or revelations leaves
\* each of these collections that the state holds unchanged.
C34_InitializeKeepsCollections ==
    [][InitializeStateMerged
       => /\ chapters # EmptyDict => chapters' = chapters
          /\ characters # EmptyDict => characters' = characters
          /\ revelations # EmptyDict => revelations' = revelations]_vars

\* C34 amended: merging the delta returned by initialize_state into a state
\* that already holds chapters, characters or revelations leaves chapters
\* and characters unchanged and every key of revelations with its value;
\* the only change is that a reader or characters key that revelations does
\* not have yet is inserted with an empty list.
C34_InitializeKeepsEntities ==
    [][InitializeStateMerged
       => /\ chapters # EmptyDict => chapters' = chapters
          /\ characters # EmptyDict => characters' = characters
          /\ revelations # EmptyDict =>
                /\ DOMAIN revelations'
                     = DOMAIN revelations \cup {"reader", "characters"}
                /\ \A k \in DOMAIN revelations :
                      revelations'[k] = revelations[k]
                /\ \A k \in {"reader", "characters"} \ DOMAIN revelations :
                      revelations'[k] = <<>>]_vars

\* initialize_state has run in a story that holds a character with a fact,
\* a chapter with a note, a revelation to the reader and a continuity issue
C34_Witness ==
    /\ msg_call.called
    /\ msg_call.node = "initialize_state"
    /\ Has(characters, "alice")
    /\ ListOf(characters["alice"], "known_facts") # <<>>
    /\ Has(chapters, "1")
    /\ ListOf(chapters["1"], "reflection_notes") # <<>>
    /\ ReaderOf(revelations) # <<>>
    /\ IssuesOf(revelations) # <<>>

(***************************************************************************)
(* Properties of the key concepts tracker.                                 *)
(***************************************************************************)
\* the last call was update_concept_introduction_status
UpdateCalled ==
    exp_call.called /\ exp_call.op = "update_concept_introduction_status"

\* C35: update_concept_introduction_status(state, name) writes to the
\* memory store a tracker with the same concepts in the same order, in which
\* exactly the concepts whose name equals name have been given introduced =
\* true, the state's current chapter and scene as introduction_chapter and
\* introduction_scene, and clarity_score = 7, every other concept being
\* unchanged; if the tracker is missing or the store raises, it returns {}
\* and writes nothing.
C35_UpdateMarksNamedConcepts ==
    UpdateCalled =>
        LET old == exp_call.before.key_concepts
            now == memory.key_concepts
        IN  IF ~exp_call.before.present \/ exp_call.store_raises
            THEN /\ exp_call.returned = EmptyReturn
                 /\ memory = exp_call.before
            ELSE /\ ~exp_call.returned.empty
                 /\ memory.present
                 /\ Len(now) = Len(old)
                 /\ \A i \in 1..Len(old) :
                      IF old[i].name = exp_call.concept_name
                      THEN /\ now[i].introduced = TRUE
                           /\ now[i].introduction_chapter
                                = exp_call.state.current_chapter
                           /\ now[i].introduction_scene
                                = exp_call.state.current_scene
                           /\ now[i].clarity_score = 7
                           /\ now[i].name = old[i].name
                           /\ now[i].recommended_chapter
                                = old[i].recommended_chapter
                      ELSE now[i] = old[i]

\* guild has been marked in chapter 2, scene 1, in a tracker of two concepts
\* whose other concept, magic, had been marked before and has kept its
\* values
C35_Witness ==
    /\ UpdateCalled
    /\ exp_call.concept_name = "guild"
    /\ exp_call.state = [current_chapter |-> "2", current_scene |-> "1"]
    /\ ~exp_call.returned.empty
    /\ Len(memory.key_concepts) = 2
    /\ memory.key_concepts[1].name = "magic"
    /\ memory.key_concepts[1].introduced
    /\ memory.key_concepts[1].introduction_chapter = "1"
    /\ memory.key_concepts[2].name = "guild"
    /\ ~exp_call.before.key_concepts[2].introduced

\* the last call was check_concept_introduction
CheckCalled ==
    exp_call.called /\ exp_call.op = "check_concept_introduction"

\* C36: once update_concept_introduction_status has marked a concept
\* introduced, check_concept_introduction never again returns that concept
\* in concepts_to_introduce, for any current chapter, as long as
\* track_key_concepts does not recreate the tracker; and it only ever
\* returns concepts whose recommended_chapter equals the current chapter and
\* whose introduced flag is false.
C36_IntroducedNeverReturned ==
    CheckCalled =>
        \A i \in 1..Len(exp_call.returned.concepts) :
            LET concept == exp_call.returned.concepts[i]
            IN  /\ concept.name \notin marked
                /\ concept.recommended_chapter = exp_call.state.current_chapter
                /\ ~concept.introduced

\* the check for chapter 1 found magic and guild recommended for it, magic
\* marked introduced before, and returned guild alone
C36_Witness ==
    /\ CheckCalled
    /\ exp_call.state.current_chapter = "1"
    /\ marked = {"magic"}
    /\ Len(memory.key_concepts) = 2
    /\ memory.key_concepts[1].name = "magic"
    /\ memory.key_concepts[1].recommended_chapter = "1"
    /\ memory.key_concepts[2].name = "guild"
    /\ memory.key_concepts[2].recommended_chapter = "1"
    /\ exp_call.returned = ReturnOf(<<memory.key_concepts[2]>>)

(***************************************************************************)
(* Properties of progress tracking.                                        *)
(***************************************************************************)
\* the positions of the calls of the callback among the events of the last
\* call
CallbackCalls ==
    {i \in 1..Len(pr_call.events) : pr_call.events[i].event = "callback"}

\* the positions of the calls of the node function
NodeCalls ==
    {i \in 1..Len(pr_call.events) : pr_call.events[i].event = "node_func"}

==========================================================================
